---- MODULE Spec2Model ----
(***************************************************************************)
(* A model of the context-aware research assistant: the Neo4j graph store, *)
(* the vector store, the entity extractor, the ingestion orchestrator      *)
(* (DocumentService), the hybrid retriever (GraphRAGRetriever) and the     *)
(* answer synthesizer (QueryEngine).                                       *)
(*                                                                         *)
(* Python values are encoded as records tagged with their type:            *)
(*   scalars  [t |-> "str"|"int"|"float"|"bool", s |-> <str() form>]       *)
(*   None     [t |-> "none", s |-> "None"]                                 *)
(*   lists    [t |-> "list", items |-> <<...>>]                            *)
(*   dicts    [t |-> "map",  pairs |-> << <<key, value>>, ... >>]          *)
(*            (insertion ordered, keys unique, as a Python dict)           *)
(***************************************************************************)
EXTENDS Integers, Sequences, FiniteSets, TLC

VARIABLES
    nodes,    \* graph: sequence of nodes [label, props]; a node's identity is its position
    edges,    \* graph: set of relationships [from, to, type, props] between node positions
    vindex,   \* vector index: sequence of entries [text, metadata]
    now,      \* the graph engine's clock, read by datetime()
    ing,      \* the ingestion in progress (DocumentService.ingest_document)
    nIngest,  \* the number of ingest_document calls made so far
    nFaults,  \* the number of failures of external calls during ingestion so far
    qres,     \* the result of the last QueryEngine.query call
    call,     \* the call under observation: its operation, arguments and result
    batch     \* the ingest_multiple_documents call in progress: its paths, position and ids

vars == <<nodes, edges, vindex, now, ing, nIngest, nFaults, qres, call, batch>>

----------------------------------------------------------------------------
(* Python values *)

StrV(s) == [t |-> "str", s |-> s]
IntV(s) == [t |-> "int", s |-> s]
FloatV(s) == [t |-> "float", s |-> s]
BoolV(s) == [t |-> "bool", s |-> s]
NoneV == [t |-> "none", s |-> "None"]
ListV(items) == [t |-> "list", items |-> items]
MapV(pairs) == [t |-> "map", pairs |-> pairs]

IsScalar(v) == v.t \in {"str", "int", "float", "bool"}
IsNone(v) == v.t = "none"
IsList(v) == v.t = "list"
IsMap(v) == v.t = "map"

Range(seq) == {seq[i] : i \in 1..Len(seq)}

HasKey(d, k) == \E i \in 1..Len(d.pairs) : d.pairs[i][1] = k

\* d[k] for a key the dict has
Get(d, k) == d.pairs[CHOOSE i \in 1..Len(d.pairs) : d.pairs[i][1] = k][2]

\* d.get(k, default)
GetOr(d, k, default) == IF HasKey(d, k) THEN Get(d, k) ELSE default

\* d[k] = v: replaces the value in place, or appends the key
Put(d, k, v) ==
    IF HasKey(d, k)
    THEN MapV([i \in 1..Len(d.pairs) |->
                 IF d.pairs[i][1] = k THEN <<k, v>> ELSE d.pairs[i]])
    ELSE MapV(Append(d.pairs, <<k, v>>))

EmptyMap == MapV(<<>>)

\* Python truthiness (the `not x` tests of the code)
Truthy(v) ==
    CASE IsNone(v) -> FALSE
      [] v.t = "str" -> v.s # ""
      [] v.t = "int" -> v.s # "0"
      [] v.t = "float" -> v.s # "0.0"
      [] v.t = "bool" -> v.s = "True"
      [] IsList(v) -> Len(v.items) > 0
      [] IsMap(v) -> Len(v.pairs) > 0

RECURSIVE JoinStr(_, _)
JoinStr(seq, sep) ==
    IF Len(seq) = 0 THEN ""
    ELSE IF Len(seq) = 1 THEN seq[1]
    ELSE seq[1] \o sep \o JoinStr(Tail(seq), sep)

\* repr(v) and str(v): they differ on strings only
RECURSIVE PyRepr(_)
PyRepr(v) ==
    CASE v.t = "str" -> "'" \o v.s \o "'"
      [] IsList(v) ->
           "[" \o JoinStr([i \in 1..Len(v.items) |-> PyRepr(v.items[i])], ", ") \o "]"
      [] IsMap(v) ->
           "{" \o JoinStr([i \in 1..Len(v.pairs) |->
                             "'" \o v.pairs[i][1] \o "': " \o PyRepr(v.pairs[i][2])], ", ")
               \o "}"
      [] OTHER -> v.s

PyStr(v) == IF v.t = "str" THEN v.s ELSE PyRepr(v)

----------------------------------------------------------------------------
(* Neo4jStore._is_primitive and Neo4jStore._flatten_metadata *)

RECURSIVE IsPrimitive(_)
IsPrimitive(v) ==
    CASE IsNone(v) -> TRUE
      [] IsScalar(v) -> TRUE
      [] IsList(v) -> \A i \in 1..Len(v.items) : IsPrimitive(v.items[i])
      [] OTHER -> FALSE

\* one iteration of the loop of _flatten_metadata over (key, value)
FlattenStep(flattened, key, value) ==
    IF IsPrimitive(value) THEN Put(flattened, key, value)
    ELSE IF IsList(value)
    THEN Put(flattened, key,
             ListV([i \in 1..Len(value.items) |-> StrV(PyStr(value.items[i]))]))
    ELSE flattened

RECURSIVE FlattenLoop(_, _, _)
FlattenLoop(flattened, pairs, i) ==
    IF i > Len(pairs) THEN flattened
    ELSE FlattenLoop(FlattenStep(flattened, pairs[i][1], pairs[i][2]), pairs, i + 1)

FlattenMetadata(metadata) ==
    IF ~IsMap(metadata) THEN EmptyMap
    ELSE FlattenLoop(EmptyMap, metadata.pairs, 1)

----------------------------------------------------------------------------
(* Inputs of the flattening step *)

MaxListLen == 2

\* metadata values: no dict, the empty dict, and dicts of one or two keys whose
\* values are scalars, None, dicts, and lists of up to MaxListLen scalars,
\* None, dicts and lists
FlattenInputs ==
    LET inner == MapV(<< <<"n", IntV("1")>> >>)
        elems == {StrV("a"), IntV("1"), NoneV, inner,
                  ListV(<<IntV("1")>>), ListV(<<inner>>)}
        firsts == {StrV("a"), IntV("1"), FloatV("1.5"), BoolV("True"), NoneV, EmptyMap, inner}
                  \cup {ListV(items) : items \in UNION {[1..k -> elems] : k \in 0..MaxListLen}}
        seconds == {IntV("2"), inner, ListV(<<StrV("a"), IntV("1")>>)}
    IN  {NoneV, ListV(<<>>), StrV("x"), EmptyMap}
        \cup {MapV(<< <<"k1", v>> >>) : v \in firsts}
        \cup {MapV(<< <<"k1", v>>, <<"k2", w>> >>) : v \in firsts, w \in seconds}

----------------------------------------------------------------------------
(* The property graph and the Cypher statements of Neo4jStore *)

\* SET n.k = v: a null value removes the property
SetProp(props, k, v) ==
    IF IsNone(v) THEN [x \in DOMAIN props \ {k} |-> props[x]]
    ELSE [x \in DOMAIN props \cup {k} |-> IF x = k THEN v ELSE props[x]]

\* the SET clauses of one statement, applied left to right
RECURSIVE ApplySets(_, _, _)
ApplySets(props, sets, i) ==
    IF i > Len(sets) THEN props
    ELSE ApplySets(SetProp(props, sets[i][1], sets[i][2]), sets, i + 1)

\* A label, relationship type or property key is interpolated into the statement
\* text: the statement parses only when it is an identifier.
Identifiers ==
    {"Document", "Chunk", "Policy", "Section", "Topic", "Concept",
     "BELONGS_TO", "MENTIONED_IN", "RELATES_TO", "AFFECTS",
     "id", "name", "text", "index", "filename", "file_path", "total_pages",
     "chunk_id", "chunk_index", "total_chunks", "created_at", "k1", "k2", "None"}

\* what the engine stores as a property: a scalar or a flat array of scalars
\* of one type (null removes the property)
Storable(v) ==
    \/ IsNone(v)
    \/ IsScalar(v)
    \/ v.t = "datetime"
    \/ /\ IsList(v)
       /\ \A i \in 1..Len(v.items) : IsScalar(v.items[i])
       /\ \A i, j \in 1..Len(v.items) : v.items[i].t = v.items[j].t

SetsParse(sets) == \A i \in 1..Len(sets) : sets[i][1] \in Identifiers
SetsStorable(sets) == \A i \in 1..Len(sets) : Storable(sets[i][2])

\* the labels with a uniqueness constraint on id (_ensure_constraints)
ConstrainedLabels == {"Document", "Policy", "Section", "Topic", "Concept", "Chunk"}

ConstraintsHold(ns) ==
    \A i, j \in 1..Len(ns) :
        (/\ i # j
         /\ ns[i].label = ns[j].label
         /\ ns[i].label \in ConstrainedLabels
         /\ "id" \in DOMAIN ns[i].props
         /\ "id" \in DOMAIN ns[j].props) => ns[i].props["id"] # ns[j].props["id"]

HasId(n, idv) == "id" \in DOMAIN n.props /\ n.props["id"] = idv

\* MATCH (n:label {id: idv}) and MATCH (n {id: idv}): the positions matched
MatchLabelId(ns, label, idv) ==
    {i \in 1..Len(ns) : ns[i].label = label /\ HasId(ns[i], idv)}

MatchId(ns, idv) == {i \in 1..Len(ns) : HasId(ns[i], idv)}

\* MERGE (n:label {id: idv}): creates the node when nothing matches
MergeNode(ns, label, idv) ==
    IF MatchLabelId(ns, label, idv) # {} THEN ns
    ELSE Append(ns, [label |-> label, props |-> [k \in {"id"} |-> idv]])

\* SET on every node in `who`
SetOnNodes(ns, who, sets) ==
    [i \in 1..Len(ns) |->
        IF i \in who THEN [ns[i] EXCEPT !.props = ApplySets(@, sets, 1)] ELSE ns[i]]

EdgeBetween(es, a, type, b) == {e \in es : e.from = a /\ e.to = b /\ e.type = type}

\* MERGE (a)-[r:type]->(b) SET r.k = v, ... for every pair of `as` x `bs`
MergeEdges(es, as, type, bs, sets) ==
    LET pairs == as \X bs
        old == {e \in es : <<e.from, e.to>> \in pairs /\ e.type = type}
        propsOf(a, b) ==
            IF EdgeBetween(es, a, type, b) = {} THEN [k \in {} |-> NoneV]
            ELSE (CHOOSE e \in EdgeBetween(es, a, type, b) : TRUE).props
    IN  (es \ old) \cup
        {[from |-> p[1], to |-> p[2], type |-> type,
          props |-> ApplySets(propsOf(p[1], p[2]), sets, 1)] : p \in pairs}

NoCall == [op |-> "none"]

Ok(ns, es) == [nodes |-> ns, edges |-> es, exc |-> "ok"]

\* a faulty variant: a statement that fails takes the graph with it
RaisedRollsBack(ns, es, e) == [nodes |-> <<>>, edges |-> {}, exc |-> e]

Raised(ns, es, e) == [nodes |-> ns, edges |-> es, exc |-> e]

----------------------------------------------------------------------------
(* Neo4jStore.create_document_node *)

DocumentSets(ns, doc_id, filename, flattened, clock) ==
    << <<"filename", filename>>, <<"created_at", [t |-> "datetime", s |-> ToString(clock)]>> >> \o flattened.pairs

CreateDocumentNode(ns, es, clock, doc_id, filename, metadata) ==
    LET flattened == FlattenMetadata(metadata)
        sets == DocumentSets(ns, doc_id, filename, flattened, clock)
        merged == MergeNode(ns, "Document", StrV(doc_id))
        written == SetOnNodes(merged, MatchLabelId(merged, "Document", StrV(doc_id)), sets)
    IN  IF ~SetsParse(sets) THEN Raised(ns, es, "CypherSyntaxError")
        ELSE IF ~SetsStorable(sets) THEN Raised(ns, es, "CypherTypeError")
        ELSE IF ~ConstraintsHold(written) THEN Raised(ns, es, "ConstraintError")
        ELSE Ok(written, es)

----------------------------------------------------------------------------
(* Neo4jStore.create_chunk_node *)

ChunkSkippedKeys == {"chunk_id", "text", "chunk_index"}

\* the SET clauses: text, index, then every flattened key that is not skipped
ChunkSets(text, metadata) ==
    LET flattened == FlattenMetadata(metadata)
    IN  << <<"text", text>>, <<"index", GetOr(metadata, "chunk_index", IntV("0"))>> >>
        \o SelectSeq(flattened.pairs, LAMBDA p : p[1] \notin ChunkSkippedKeys)

CreateChunkNode(ns, es, chunk_id, text, metadata, doc_id) ==
    IF ~IsMap(metadata) THEN Raised(ns, es, "AttributeError")
    ELSE
    LET sets == ChunkSets(text, metadata)
        merged == MergeNode(ns, "Chunk", StrV(chunk_id))
        who == MatchLabelId(merged, "Chunk", StrV(chunk_id))
        written == SetOnNodes(merged, who, sets)
        docs == MatchLabelId(written, "Document", StrV(doc_id))
        linked == MergeEdges(es, who, "BELONGS_TO", docs, <<>>)
    IN  IF ~SetsParse(sets) THEN Raised(ns, es, "CypherSyntaxError")
        ELSE IF ~SetsStorable(sets) THEN Raised(ns, es, "CypherTypeError")
        ELSE IF ~ConstraintsHold(written) THEN Raised(ns, es, "ConstraintError")
        \* no Document matched: the statement returns no row and
        \* result.single()["id"] fails after the chunk has been written
        ELSE IF docs = {} THEN Raised(written, linked, "TypeError")
        ELSE Ok(written, linked)

----------------------------------------------------------------------------
(* Neo4jStore.create_entity_nodes *)

\* the statement run for one entity that passed the type/id test
EntityWrite(ns, es, type, id, name, properties, chunk_id) ==
    LET sets == << <<"name", name>> >> \o FlattenMetadata(properties).pairs
        label == PyStr(type)
        merged == MergeNode(ns, label, id)
        who == MatchLabelId(merged, label, id)
        written == SetOnNodes(merged, who, sets)
        chunks == MatchLabelId(written, "Chunk", StrV(chunk_id))
    IN  IF label \notin Identifiers \/ ~SetsParse(sets)
        THEN Raised(ns, es, "CypherSyntaxError")
        ELSE IF ~IsScalar(id) \/ ~SetsStorable(sets) THEN Raised(ns, es, "CypherTypeError")
        ELSE IF ~ConstraintsHold(written) THEN Raised(ns, es, "ConstraintError")
        ELSE Ok(written, MergeEdges(es, who, "MENTIONED_IN", chunks, <<>>))

\* one iteration of the loop over the entities
EntityStep(ns, es, entity, chunk_id) ==
    IF ~IsMap(entity) THEN Raised(ns, es, "AttributeError")
    ELSE IF ~Truthy(GetOr(entity, "type", NoneV)) \/ ~Truthy(GetOr(entity, "id", NoneV))
    THEN Ok(ns, es)
    ELSE EntityWrite(ns, es, GetOr(entity, "type", NoneV), GetOr(entity, "id", NoneV),
                     GetOr(entity, "name", StrV("")), GetOr(entity, "properties", EmptyMap),
                     chunk_id)

RECURSIVE EntityLoop(_, _, _, _, _)
EntityLoop(ns, es, entities, i, chunk_id) ==
    IF i > Len(entities) THEN Ok(ns, es)
    ELSE LET r == EntityStep(ns, es, entities[i], chunk_id)
         IN  IF r.exc # "ok" THEN r
             ELSE EntityLoop(r.nodes, r.edges, entities, i + 1, chunk_id)

\* each entity is its own statement: what was written before a failure stays
CreateEntityNodes(ns, es, entities, chunk_id) ==
    EntityLoop(ns, es, entities.items, 1, chunk_id)

----------------------------------------------------------------------------
(* Neo4jStore.create_relationships *)

RelationshipWrite(ns, es, from_id, to_id, type, properties) ==
    LET sets == FlattenMetadata(properties).pairs
        rel_type == PyStr(type)
        as == MatchId(ns, from_id)
        bs == MatchId(ns, to_id)
    IN  IF rel_type \notin Identifiers \/ ~SetsParse(sets)
        THEN Raised(ns, es, "CypherSyntaxError")
        ELSE IF as \X bs # {} /\ ~SetsStorable(sets) THEN Raised(ns, es, "CypherTypeError")
        ELSE Ok(ns, MergeEdges(es, as, rel_type, bs, sets))

\* one iteration of the loop over the relationships
RelationshipStep(ns, es, rel) ==
    IF ~IsMap(rel) THEN Raised(ns, es, "AttributeError")
    ELSE IF ~Truthy(GetOr(rel, "from", NoneV)) \/ ~Truthy(GetOr(rel, "to", NoneV))
    THEN Ok(ns, es)
    ELSE RelationshipWrite(ns, es, GetOr(rel, "from", NoneV), GetOr(rel, "to", NoneV),
                           GetOr(rel, "type", StrV("RELATES_TO")),
                           GetOr(rel, "properties", EmptyMap))

RECURSIVE RelationshipLoop(_, _, _, _)
RelationshipLoop(ns, es, rels, i) ==
    IF i > Len(rels) THEN Ok(ns, es)
    ELSE LET r == RelationshipStep(ns, es, rels[i])
         IN  IF r.exc # "ok" THEN r
             ELSE RelationshipLoop(r.nodes, r.edges, rels, i + 1)

CreateRelationships(ns, es, relationships) ==
    RelationshipLoop(ns, es, relationships.items, 1)

----------------------------------------------------------------------------
(* Neo4jStore.get_chunks_by_ids, traverse_from_chunks and clear_all *)

RECURSIVE Ascending(_)
Ascending(S) ==
    IF S = {} THEN <<>>
    ELSE LET m == CHOOSE x \in S : \A y \in S : x <= y
         IN  <<m>> \o Ascending(S \ {m})

RECURSIVE Flatten2(_)
Flatten2(seqs) == IF Len(seqs) = 0 THEN <<>> ELSE Head(seqs) \o Flatten2(Tail(seqs))

PropOr(props, k, default) == IF k \in DOMAIN props THEN props[k] ELSE default

Without(props, ks) == [k \in DOMAIN props \ ks |-> props[k]]

\* the record built from one row (ch, d) of get_chunks_by_ids; d = 0 is the
\* null of OPTIONAL MATCH
ChunkRecord(ns, ch, d) ==
    LET props == ns[ch].props
        rest == Without(props, {"id", "text", "index"})
    IN  [id |-> PropOr(props, "id", NoneV),
         text |-> PropOr(props, "text", NoneV),
         metadata |-> IF "index" \in DOMAIN props
                      THEN SetProp(rest, "chunk_index", props["index"]) ELSE rest,
         document_filename |-> IF d = 0 THEN NoneV ELSE PropOr(ns[d].props, "filename", NoneV)]

DocumentsOf(ns, es, ch) ==
    {d \in 1..Len(ns) :
        ns[d].label = "Document" /\ EdgeBetween(es, ch, "BELONGS_TO", d) # {}}

\* the rows in storage order
GetChunksByIds(ns, es, chunk_ids) ==
    LET chunks == {i \in 1..Len(ns) :
                     ns[i].label = "Chunk" /\ "id" \in DOMAIN ns[i].props
                     /\ ns[i].props["id"] \in Range(chunk_ids)}
        rowsOf(ch) ==
            IF DocumentsOf(ns, es, ch) = {} THEN <<ChunkRecord(ns, ch, 0)>>
            ELSE LET ds == Ascending(DocumentsOf(ns, es, ch))
                 IN  [j \in 1..Len(ds) |-> ChunkRecord(ns, ch, ds[j])]
        order == Ascending(chunks)
    IN  Flatten2([i \in 1..Len(order) |-> rowsOf(order[i])])

\* one more relationship on every path: (at, used) -> (other end, used + r)
ExtendPaths(es, paths) ==
    {<<IF e.from = p[1] THEN e.to ELSE e.from, p[2] \cup {e}>> :
        <<p, e>> \in {q \in paths \X es :
                        q[2] \notin q[1][2] /\ (q[2].from = q[1][1] \/ q[2].to = q[1][1])}}

\* the paths of exactly k relationships that start at node c
RECURSIVE PathsOfLength(_, _, _)
PathsOfLength(es, c, k) ==
    IF k = 0 THEN {<<c, {}>>} ELSE ExtendPaths(es, PathsOfLength(es, c, k - 1))

\* the end nodes of (ch)-[*1..max_hops]-(related)
Related(es, c, max_hops) ==
    {p[1] : p \in UNION {PathsOfLength(es, c, k) : k \in 1..max_hops}}

TraverseLimit == 100

\* the record built from one row (related, ch) of traverse_from_chunks
TraverseRecord(ns, related, ch) ==
    LET props == ns[related].props
    IN  [id |-> PropOr(props, "id", NoneV),
         labels |-> <<ns[related].label>>,
         name |-> PropOr(props, "name", NoneV),
         text |-> PropOr(props, "text", NoneV),
         metadata |-> Without(props, {"id", "name", "text"}),
         source_chunk_id |-> PropOr(ns[ch].props, "id", NoneV)]

\* WITH DISTINCT related, ch: the rows before LIMIT, in storage order
TraverseRows(ns, es, chunk_ids, max_hops) ==
    LET seeds == Ascending({i \in 1..Len(ns) :
                     ns[i].label = "Chunk" /\ "id" \in DOMAIN ns[i].props
                     /\ ns[i].props["id"] \in Range(chunk_ids)})
        rowsOf(ch) ==
            LET rs == Ascending(Related(es, ch, max_hops))
            IN  [j \in 1..Len(rs) |-> <<rs[j], ch>>]
    IN  Flatten2([i \in 1..Len(seeds) |-> rowsOf(seeds[i])])

\* a faulty variant: no LIMIT clause
LimitRowsNone(rows, drop) == rows

\* LIMIT keeps TraverseLimit rows; `drop` is the set of positions it leaves out
LimitRows(rows, drop) ==
    LET kept == Ascending((1..Len(rows)) \ drop)
    IN  [j \in 1..Len(kept) |-> rows[kept[j]]]

RECURSIVE KSubsets(_, _)
KSubsets(S, k) ==
    IF k = 0 THEN {{}}
    ELSE UNION {{T \cup {x} : T \in KSubsets({y \in S : y > x}, k - 1)} : x \in S}

\* which rows LIMIT leaves out is the engine's choice
DropChoices(rows) ==
    IF Len(rows) <= TraverseLimit THEN {{}}
    ELSE KSubsets(1..Len(rows), Len(rows) - TraverseLimit)

\* the possible results of traverse_from_chunks(chunk_ids, max_hops)
TraverseFromChunks(ns, es, chunk_ids, max_hops) ==
    LET rows == TraverseRows(ns, es, chunk_ids, max_hops)
        records == [j \in 1..Len(rows) |-> TraverseRecord(ns, rows[j][1], rows[j][2])]
    IN  {LimitRows(records, drop) : drop \in DropChoices(rows)}

\* a faulty variant: DELETE without DETACH, which fails while a node has a relationship
ClearAllNoDetach(ns, es) ==
    IF es # {} THEN Raised(ns, es, "ConstraintError") ELSE Ok(<<>>, {})

\* MATCH (n) DETACH DELETE n
ClearAll(ns, es) == Ok(<<>>, {})

----------------------------------------------------------------------------
(* EntityExtractor.extract *)

\* An LLM response is a sequence of tokens: a ```json fence, a plain ``` fence,
\* the text of a JSON value, or text that is not JSON.
FenceJson == [k |-> "fence_json"]
Fence == [k |-> "fence"]
Junk == [k |-> "junk"]
JsonText(v) == [k |-> "json", v |-> v]

IsFence(tok) == tok.k \in {"fence", "fence_json"}

\* the first index at which `flags` is TRUE, Len(flags) + 1 when there is none
FirstWhere(flags) ==
    IF \E i \in 1..Len(flags) : flags[i]
    THEN CHOOSE i \in 1..Len(flags) : flags[i] /\ \A j \in 1..(i - 1) : ~flags[j]
    ELSE Len(flags) + 1

\* text.split(sep)[1].split("```")[0]: what lies between the first token
\* matching `sep` and the next fence ("```json" contains "```")
Between(tokens, sep) ==
    LET first == FirstWhere([i \in 1..Len(tokens) |-> tokens[i].k \in sep])
        rest  == SubSeq(tokens, first + 1, Len(tokens))
    IN  SubSeq(rest, 1, FirstWhere([i \in 1..Len(rest) |-> IsFence(rest[i])]) - 1)

StripFences(tokens) ==
    IF \E i \in 1..Len(tokens) : tokens[i].k = "fence_json"
    THEN Between(tokens, {"fence_json"})
    ELSE IF \E i \in 1..Len(tokens) : IsFence(tokens[i])
    THEN Between(tokens, {"fence", "fence_json"})
    ELSE tokens

\* json.loads: [exc, v]
JsonLoads(tokens) ==
    IF Len(tokens) = 1 /\ tokens[1].k = "json"
    THEN [exc |-> "ok", v |-> tokens[1].v]
    ELSE [exc |-> "JSONDecodeError", v |-> NoneV]

\* `for x in v`: the values a for loop visits (the strings iterated here have
\* at most one character)
Iterable(v) == v.t \in {"list", "map", "str"}

IterItems(v) ==
    CASE IsList(v) -> v.items
      [] IsMap(v) -> [i \in 1..Len(v.pairs) |-> StrV(v.pairs[i][1])]
      [] v.t = "str" -> IF v.s = "" THEN <<>> ELSE <<v>>

Hashable(v) == ~IsList(v) /\ ~IsMap(v)

\* a faulty variant: the id is kept as the LLM gave it
NamespacedBare(chunk_id, v) == StrV(PyStr(v))

\* f"{chunk_id}_{v}"
Namespaced(chunk_id, v) == StrV(chunk_id \o "_" \o PyStr(v))

\* the body of the first loop: if "id" in entity: entity["id"] = f"{chunk_id}_{entity['id']}"
PrefixEntity(entity, chunk_id) ==
    CASE IsMap(entity) ->
           [exc |-> "ok",
            v |-> IF HasKey(entity, "id")
                  THEN Put(entity, "id", Namespaced(chunk_id, Get(entity, "id")))
                  ELSE entity]
      [] entity.t = "str" ->
           [exc |-> IF entity.s = "id" THEN "TypeError" ELSE "ok", v |-> entity]
      [] IsList(entity) ->
           [exc |-> IF StrV("id") \in Range(entity.items) THEN "TypeError" ELSE "ok",
            v |-> entity]
      [] OTHER -> [exc |-> "TypeError", v |-> entity]

\* the body of the second loop, on one endpoint of a relationship
ResolveEndpoint(rel, end, ids, chunk_id) ==
    IF GetOr(rel, end, StrV("")) \in ids THEN Put(rel, end, GetOr(rel, end, StrV("")))
    ELSE Put(rel, end, Namespaced(chunk_id, GetOr(rel, end, StrV(""))))

ResolveRelationship(rel, ids, chunk_id) ==
    IF ~IsMap(rel) THEN [exc |-> "AttributeError", v |-> rel]
    ELSE IF ~Hashable(GetOr(rel, "from", StrV(""))) \/ ~Hashable(GetOr(rel, "to", StrV("")))
    THEN [exc |-> "TypeError", v |-> rel]
    ELSE [exc |-> "ok",
          v |-> ResolveEndpoint(ResolveEndpoint(rel, "from", ids, chunk_id),
                                "to", ids, chunk_id)]

\* a container after a loop that changed its elements in place
WithItems(container, items) == IF IsList(container) THEN ListV(items) ELSE container

ExtractOk(entities, relationships) ==
    [exc |-> "ok", entities |-> entities, relationships |-> relationships]
ExtractRaise(e) == [exc |-> e, entities |-> ListV(<<>>), relationships |-> ListV(<<>>)]

\* the statements after json.loads, on the parsed value
PostProcess(result, chunk_id) ==
    IF ~IsMap(result) THEN ExtractRaise("AttributeError")
    ELSE
    LET entities == GetOr(result, "entities", ListV(<<>>))
        relationships == GetOr(result, "relationships", ListV(<<>>))
    IN  IF ~Iterable(entities) THEN ExtractRaise("TypeError")
        ELSE
        LET es == IterItems(entities)
            prefixed == [i \in 1..Len(es) |-> PrefixEntity(es[i], chunk_id)]
            es2 == [i \in 1..Len(es) |-> prefixed[i].v]
        IN  IF \E i \in 1..Len(es) : prefixed[i].exc # "ok" THEN ExtractRaise("TypeError")
            ELSE IF \E i \in 1..Len(es2) : ~IsMap(es2[i]) THEN ExtractRaise("AttributeError")
            ELSE IF ~Iterable(relationships) THEN ExtractRaise("TypeError")
            ELSE
            LET ids == {GetOr(es2[i], "id", StrV("")) : i \in 1..Len(es2)}
                rs == IterItems(relationships)
                resolved == [i \in 1..Len(rs) |-> ResolveRelationship(rs[i], ids, chunk_id)]
            IN  IF \E i \in 1..Len(rs) : resolved[i].exc # "ok"
                THEN ExtractRaise(resolved[FirstWhere([i \in 1..Len(resolved) |-> resolved[i].exc # "ok"])].exc)
                ELSE ExtractOk(WithItems(entities, es2),
                               WithItems(relationships, [i \in 1..Len(rs) |-> resolved[i].v]))

\* the try block: the LLM call, the fence stripping, json.loads, the post-processing
ExtractBody(resp, chunk_id) ==
    IF resp.kind = "error" THEN ExtractRaise(resp.exc)
    ELSE LET parsed == JsonLoads(StripFences(resp.tokens))
         IN  IF parsed.exc # "ok" THEN ExtractRaise(parsed.exc)
             ELSE PostProcess(parsed.v, chunk_id)

\* a faulty variant: only `except json.JSONDecodeError` is there
HandlerCatchesJsonOnly(exc) == exc = "JSONDecodeError"

\* except json.JSONDecodeError / except Exception: the classes an LLM call or
\* the parsing can raise all derive from Exception
HandlerCatches(exc) ==
    \/ exc = "JSONDecodeError"
    \/ exc \in {"JSONDecodeError", "AttributeError", "TypeError", "APIError",
                "APITimeoutError"}

\* a faulty variant: no except clause, what the try block raises leaves extract
ExtractPropagates(resp, chunk_id) == ExtractBody(resp, chunk_id)

\* extract(text, chunk_id) on the LLM outcome resp: [exc, entities, relationships];
\* exc # "ok" is an exception that leaves extract
Extract(resp, chunk_id) ==
    LET body == ExtractBody(resp, chunk_id)
    IN  IF body.exc = "ok" THEN body
        ELSE IF HandlerCatches(body.exc) THEN ExtractOk(ListV(<<>>), ListV(<<>>))
        ELSE body

----------------------------------------------------------------------------
(* PDFParser.parse and DocumentChunker.chunk_document *)

MaxChunks == 2
MaxIngests == 2

\* the numbers of chunks the splitter makes of a document: none, one, many
ChunkCounts == {0, 1, MaxChunks}

\* the uploaded files: UPLOAD_DIR / file.filename
PathA == [name |-> "a.pdf", stem |-> "a"]
Paths == {PathA, [name |-> "b.pdf", stem |-> "b"]}

\* the metadata dict built by parse
ParsedMetadata(path) ==
    MapV(<< <<"filename", StrV(path.name)>>,
            <<"file_path", StrV("uploads/" \o path.name)>>,
            <<"total_pages", IntV("1")>> >>)

DocId(path) == "doc_" \o path.stem

\* a faulty variant: the chunk id does not name the file
ChunkUnqualified(metadata, idx, n) ==
    LET chunk_id == "chunk_" \o ToString(idx)
    IN  [text |-> StrV("text of " \o PyStr(GetOr(metadata, "filename", StrV("doc")))
                       \o "_" \o chunk_id),
         metadata |-> Put(Put(Put(metadata, "chunk_id", StrV(chunk_id)),
                              "chunk_index", IntV(ToString(idx))),
                          "total_chunks", IntV(ToString(n)))]

\* chunk idx (from 0) of n: the text of the node and the enriched metadata
Chunk(metadata, idx, n) ==
    LET filename == PyStr(GetOr(metadata, "filename", StrV("doc")))
        chunk_id == filename \o "_chunk_" \o ToString(idx)
    IN  [text |-> StrV("text of " \o chunk_id),
         metadata |-> Put(Put(Put(metadata, "chunk_id", StrV(chunk_id)),
                              "chunk_index", IntV(ToString(idx))),
                          "total_chunks", IntV(ToString(n)))]

ChunkDocument(metadata, n) == [i \in 1..n |-> Chunk(metadata, i - 1, n)]

ChunkId(chunk) == Get(chunk.metadata, "chunk_id").s

----------------------------------------------------------------------------
(* VectorStore.add_documents *)

\* the index after the first k calls of index.insert(doc): each entry gets a
\* fresh node id, no key is passed
RECURSIVE AddDocuments(_, _, _)
AddDocuments(index, documents, k) ==
    IF k = 0 THEN index
    ELSE LET before == AddDocuments(index, documents, k - 1)
         IN  Append(before, [text |-> documents[k].text,
                             metadata |-> documents[k].metadata,
                             node_id |-> Len(before) + 1])

----------------------------------------------------------------------------
(* The corpus: what the LLM answers for each chunk (temperature 0.0) *)

GoodEntities ==
    ListV(<< MapV(<< <<"type", StrV("Policy")>>, <<"id", StrV("e1")>>,
                     <<"name", StrV("Leave")>>, <<"properties", EmptyMap>> >>),
             MapV(<< <<"type", StrV("Topic")>>, <<"id", StrV("e2")>>,
                     <<"name", StrV("HR")>> >>) >>)
GoodRelationships ==
    ListV(<< MapV(<< <<"from", StrV("e1")>>, <<"to", StrV("e2")>>,
                     <<"type", StrV("AFFECTS")>>, <<"properties", EmptyMap>> >>) >>)
MalformedEntities ==
    ListV(<< MapV(<< <<"type", StrV("Policy")>>, <<"name", StrV("no id")>> >>),
             MapV(<< <<"id", StrV("e3")>>, <<"name", StrV("no type")>> >>),
             MapV(<< <<"type", StrV("Concept")>>, <<"id", StrV("e4")>>,
                     <<"name", StrV("Notice")>> >>) >>)
MalformedRelationships ==
    ListV(<< MapV(<< <<"to", StrV("e4")>>, <<"type", StrV("AFFECTS")>> >>),
             MapV(<< <<"from", StrV("e4")>>, <<"to", StrV("elsewhere")>> >>),
             MapV(<< <<"from", StrV("e4")>>, <<"to", StrV("e4")>> >>) >>)
BadLabelEntities ==
    ListV(<< MapV(<< <<"type", StrV("Leave Policy")>>, <<"id", StrV("e5")>>,
                     <<"name", StrV("Leave")>> >>),
             MapV(<< <<"type", StrV("Section")>>, <<"id", StrV("e6")>>,
                     <<"name", StrV("Intro")>> >>) >>)

LlmText(tokens) == [kind |-> "text", exc |-> "ok", tokens |-> tokens]
LlmObject(entities, relationships) ==
    JsonText(MapV(<< <<"entities", entities>>, <<"relationships", relationships>> >>))

\* the completion for chunk idx of the file
CorpusResponse(filename, idx) ==
    CASE filename = "a.pdf" /\ idx = 0 ->
           LlmText(<<FenceJson, LlmObject(GoodEntities, GoodRelationships), Fence>>)
      [] filename = "a.pdf" /\ idx = 1 ->
           LlmText(<<LlmObject(MalformedEntities, MalformedRelationships)>>)
      \* the entities of a.pdf, and one that the LLM gave the type Chunk
      [] filename = "b.pdf" /\ idx = 0 ->
           LlmText(<<LlmObject(
               ListV(Append(GoodEntities.items,
                            MapV(<< <<"type", StrV("Chunk")>>, <<"id", StrV("e7")>>,
                                    <<"name", StrV("Notes")>> >>))),
               GoodRelationships)>>)
      [] filename = "b.pdf" /\ idx = 1 ->
           LlmText(<<LlmObject(BadLabelEntities, ListV(<<>>))>>)
      [] OTHER -> LlmText(<<Junk>>)

----------------------------------------------------------------------------
(* DocumentService.ingest_document, one step per external call *)

Workers == {"w1"}

MaxFaults == 1

Idle == [pc |-> "idle", path |-> "", doc_id |-> "", metadata |-> EmptyMap, chunks |-> <<>>,
         i |-> 0, entities |-> ListV(<<>>), relationships |-> ListV(<<>>), rels |-> <<>>,
         exc |-> "ok", log |-> <<>>]

\* an external call works, or (while the environment has failures left to
\* inject) fails
Outcomes(faulty) == {TRUE} \cup {up \in {FALSE} : faulty /\ nFaults < MaxFaults}

Counted(up) == nFaults' = IF up THEN nFaults ELSE nFaults + 1

Logged(st, name) == [st EXCEPT !.log = Append(@, name)]

\* ingest_document returns or raises: its locals are gone; what stays is what
\* the caller sees (the id returned or the exception) and the calls it made
Leave(st, pc, exc) ==
    [Idle EXCEPT !.pc = pc, !.exc = exc, !.path = st.path, !.doc_id = st.doc_id,
                 !.i = st.i, !.log = st.log]

\* a faulty variant: the chunks are indexed once the first of them is written
PcAfterChunkIndexEarly(i, n, rels) ==
    IF i = 1 /\ n > 0 THEN "chunk" ELSE "index"

\* a faulty variant: the relationships of a chunk are written as soon as there are some
PcAfterChunkEager(i, n, rels) ==
    IF rels # <<>> THEN "relationships" ELSE IF i <= n THEN "chunk" ELSE "index"

\* where the loop over the chunks goes with chunk i next, n chunks and the
\* accumulated relationships
PcAfterChunk(i, n, rels) ==
    IF i <= n THEN "chunk" ELSE IF rels # <<>> THEN "relationships" ELSE "index"

\* ingest_document(path) is called: the parse
Start(w, path, faulty) ==
    /\ ing[w].pc = "idle"
    /\ nIngest < MaxIngests
    /\ nIngest' = nIngest + 1
    /\ \E up \in Outcomes(faulty) :
         /\ Counted(up)
         /\ ing' = [ing EXCEPT ![w] =
                      IF up
                      THEN [Idle EXCEPT !.pc = "document", !.path = path.name,
                                        !.doc_id = DocId(path),
                                        !.metadata = ParsedMetadata(path)]
                      ELSE Leave([Idle EXCEPT !.path = path.name], "failed", "FileDataError")]
    /\ qres' = [kind |-> "none"]
    /\ call' = NoCall
    /\ UNCHANGED <<nodes, edges, vindex, now, batch>>

\* create_document_node; datetime() reads the clock, which then moves on
DocumentStep(w, faulty) ==
    /\ ing[w].pc = "document"
    /\ \E up \in Outcomes(faulty) :
         LET st == Logged(ing[w], "create_document_node")
             r == IF up
                  THEN CreateDocumentNode(nodes, edges, now, st.doc_id,
                                          Get(st.metadata, "filename"), st.metadata)
                  ELSE Raised(nodes, edges, "ServiceUnavailable")
         IN  /\ Counted(up)
             /\ nodes' = r.nodes
             /\ edges' = r.edges
             /\ ing' = [ing EXCEPT ![w] =
                          IF r.exc = "ok" THEN [st EXCEPT !.pc = "chunking"]
                          ELSE Leave(st, "failed", r.exc)]
    /\ call' = NoCall
    /\ now' = now + 1
    /\ UNCHANGED <<vindex, nIngest, qres, batch>>

\* chunk_document: the splitter decides the number of chunks, or fails
ChunkingStep(w, faulty, sizes) ==
    /\ ing[w].pc = "chunking"
    /\ \E up \in Outcomes(faulty), n \in sizes :
         /\ Counted(up)
         /\ ing' = [ing EXCEPT ![w] =
                      IF up
                      THEN [@ EXCEPT !.chunks = ChunkDocument(ing[w].metadata, n),
                                     !.i = 1,
                                     !.pc = PcAfterChunk(1, n, <<>>)]
                      ELSE Leave(@, "failed", "APIError")]
    /\ call' = NoCall
    /\ UNCHANGED <<nodes, edges, vindex, now, nIngest, qres, batch>>

\* create_chunk_node for chunk i
ChunkStep(w, faulty) ==
    /\ ing[w].pc = "chunk"
    /\ \E up \in Outcomes(faulty) :
         LET st == Logged(ing[w], "create_chunk_node")
             chunk == st.chunks[st.i]
             r == IF up
                  THEN CreateChunkNode(nodes, edges, ChunkId(chunk), chunk.text,
                                       chunk.metadata, st.doc_id)
                  ELSE Raised(nodes, edges, "ServiceUnavailable")
         IN  /\ Counted(up)
             /\ nodes' = r.nodes
             /\ edges' = r.edges
             /\ ing' = [ing EXCEPT ![w] =
                          IF r.exc = "ok" THEN [st EXCEPT !.pc = "extract"]
                          ELSE Leave(st, "failed", r.exc)]
    /\ call' = NoCall
    /\ UNCHANGED <<vindex, now, nIngest, qres, batch>>

\* the state after the entities of chunk i are done with: all_relationships.extend
NextChunk(st, relationships) ==
    LET rels == st.rels \o IterItems(relationships)
    IN  [st EXCEPT !.rels = rels, !.i = st.i + 1, !.entities = ListV(<<>>),
                   !.relationships = ListV(<<>>),
                   !.pc = PcAfterChunk(st.i + 1, Len(st.chunks), rels)]

\* what the LLM may answer instead of the corpus response when it fails: the
\* call raises, the text is not JSON, the JSON is not an object, or the entries
\* have the wrong shape
LlmFailures ==
    {[kind |-> "error", exc |-> "APITimeoutError", tokens |-> <<>>],
     LlmText(<<Junk>>),
     LlmText(<<FenceJson, Junk, Fence>>),
     LlmText(<<Fence>>),
     LlmText(<<JsonText(ListV(<<>>))>>),
     LlmText(<<JsonText(StrV("x"))>>),
     LlmText(<<JsonText(NoneV)>>),
     LlmText(<<LlmObject(IntV("1"), ListV(<<>>))>>),
     LlmText(<<LlmObject(ListV(<<IntV("1")>>), ListV(<<>>))>>),
     LlmText(<<LlmObject(ListV(<<StrV("x")>>), ListV(<<>>))>>),
     LlmText(<<LlmObject(GoodEntities, ListV(<<StrV("x")>>))>>),
     LlmText(<<LlmObject(GoodEntities,
                         ListV(<<MapV(<< <<"from", ListV(<<>>)>>,
                                         <<"to", StrV("e1")>> >>)>>))>>)}

LlmOutcomes(filename, idx, faulty) ==
    {CorpusResponse(filename, idx)}
    \cup (IF faulty /\ nFaults < MaxFaults THEN LlmFailures ELSE {})

\* entity_extractor.extract for chunk i, and `if entities:`
ExtractStep(w, faulty) ==
    /\ ing[w].pc = "extract"
    /\ \E resp \in LlmOutcomes(ing[w].path, ing[w].i - 1, faulty) :
         LET st == Logged(ing[w], "extract")
             chunk_id == ChunkId(st.chunks[st.i])
             r == Extract(resp, chunk_id)
         IN  /\ Counted(resp = CorpusResponse(st.path, st.i - 1))
             /\ call' = [op |-> "extract", resp |-> resp, chunk_id |-> chunk_id,
                         result |-> r]
             /\ ing' = [ing EXCEPT ![w] =
                          IF r.exc # "ok" THEN Leave(st, "failed", r.exc)
                          ELSE IF Truthy(r.entities)
                          THEN [st EXCEPT !.pc = "entities", !.entities = r.entities,
                                          !.relationships = r.relationships]
                          ELSE NextChunk(st, r.relationships)]
    /\ UNCHANGED <<nodes, edges, vindex, now, nIngest, qres, batch>>

\* create_entity_nodes for chunk i
EntitiesStep(w, faulty) ==
    /\ ing[w].pc = "entities"
    /\ \E up \in Outcomes(faulty) :
         LET st == Logged(ing[w], "create_entity_nodes")
             r == IF up
                  THEN CreateEntityNodes(nodes, edges, st.entities, ChunkId(st.chunks[st.i]))
                  ELSE Raised(nodes, edges, "ServiceUnavailable")
         IN  /\ Counted(up)
             /\ nodes' = r.nodes
             /\ edges' = r.edges
             /\ ing' = [ing EXCEPT ![w] =
                          IF r.exc = "ok" THEN NextChunk(st, st.relationships)
                          ELSE Leave(st, "failed", r.exc)]
    /\ call' = NoCall
    /\ UNCHANGED <<vindex, now, nIngest, qres, batch>>

\* create_relationships(all_relationships)
RelationshipsStep(w, faulty) ==
    /\ ing[w].pc = "relationships"
    /\ \E up \in Outcomes(faulty) :
         LET st == Logged(ing[w], "create_relationships")
             r == IF up THEN CreateRelationships(nodes, edges, ListV(st.rels))
                  ELSE Raised(nodes, edges, "ServiceUnavailable")
         IN  /\ Counted(up)
             /\ nodes' = r.nodes
             /\ edges' = r.edges
             /\ ing' = [ing EXCEPT ![w] =
                          IF r.exc = "ok" THEN [st EXCEPT !.pc = "index"]
                          ELSE Leave(st, "failed", r.exc)]
    /\ call' = NoCall
    /\ UNCHANGED <<vindex, now, nIngest, qres, batch>>

\* vector_store.add_documents(chunks): an insert may fail, the earlier ones stay
IndexStep(w, faulty) ==
    /\ ing[w].pc = "index"
    /\ \E up \in Outcomes(faulty), k \in 0..Len(ing[w].chunks) :
         LET st == Logged(ing[w], "add_documents")
         IN  /\ up <=> k = Len(st.chunks)
             /\ Counted(up)
             /\ vindex' = AddDocuments(vindex, st.chunks, k)
             /\ ing' = [ing EXCEPT ![w] =
                          IF up THEN Leave(st, "done", "ok") ELSE Leave(st, "failed", "APIError")]
    /\ call' = NoCall
    /\ UNCHANGED <<nodes, edges, now, nIngest, qres, batch>>

----------------------------------------------------------------------------
(* VectorStore.similarity_search and get_chunk_ids_from_results *)

\* the possible results: the top_k best entries of the ranking of the query
\* asked (one query ranks the entries in index order, one in the opposite
\* order), or the empty list when the engine call fails
SimilaritySearch(index, top_k) ==
    LET n == Len(index)
        rankings == {[i \in 1..n |-> i], [i \in 1..n |-> n + 1 - i]}
    IN  {<<>>} \cup
        {[r \in 1..(IF top_k <= n THEN top_k ELSE n) |->
            [text |-> index[ranking[r]].text, metadata |-> index[ranking[r]].metadata,
             score |-> FloatV(ToString(n - r)), node_id |-> index[ranking[r]].node_id]] :
         ranking \in rankings}

GetChunkIdsFromResults(results) ==
    LET ids == [i \in 1..Len(results) |->
                  GetOr(results[i].metadata, "chunk_id", NoneV)]
    IN  SelectSeq(ids, Truthy)

----------------------------------------------------------------------------
(* GraphRAGRetriever.retrieve *)

\* a metadata dict as the function of its keys
AsProps(d) == [k \in {d.pairs[i][1] : i \in 1..Len(d.pairs)} |-> Get(d, k)]

\* a faulty variant: the item is built without the text of the result
VectorItemUntexted(result) ==
    [source |-> "vector", text |-> NoneV, metadata |-> AsProps(result.metadata),
     score |-> result.score]

VectorItem(result) ==
    [source |-> "vector", text |-> result.text, metadata |-> AsProps(result.metadata),
     score |-> result.score]

GraphItem(chunk) ==
    [source |-> "graph", text |-> chunk.text, metadata |-> chunk.metadata,
     document_filename |-> chunk.document_filename]

EntityItem(item) ==
    [source |-> "graph_entity",
     type |-> IF Len(item.labels) > 0 THEN item.labels[1] ELSE "Unknown",
     name |-> item.name, metadata |-> item.metadata, text |-> item.text]

IsChunkNode(item) == "Chunk" \in Range(item.labels)

\* a faulty variant: the graph expansion is put in front of the vector results
CombineGraphFirst(vector_results, graph_chunks, graph_context, chunk_ids) ==
    LET expansion == SelectSeq(graph_chunks, LAMBDA c : c.id \notin Range(chunk_ids))
        others    == SelectSeq(graph_context, LAMBDA n : ~IsChunkNode(n))
    IN  [i \in 1..Len(expansion) |-> GraphItem(expansion[i])]
        \o [i \in 1..Len(vector_results) |-> VectorItem(vector_results[i])]
        \o [i \in 1..Len(others) |-> EntityItem(others[i])]

\* step 5: the three loops that fill combined_context
Combine(vector_results, graph_chunks, graph_context, chunk_ids) ==
    LET expansion == SelectSeq(graph_chunks, LAMBDA c : c.id \notin Range(chunk_ids))
        others    == SelectSeq(graph_context, LAMBDA n : ~IsChunkNode(n))
    IN  [i \in 1..Len(vector_results) |-> VectorItem(vector_results[i])]
        \o [i \in 1..Len(expansion) |-> GraphItem(expansion[i])]
        \o [i \in 1..Len(others) |-> EntityItem(others[i])]

\* a faulty variant: no early return
ShortCircuitNever(vector_results) == FALSE

\* `if not vector_results`
ShortCircuit(vector_results) == vector_results = <<>>

\* the engine returns rows in an order of its choice: storage order or its reverse
EngineOrders(rows) == {rows, [i \in 1..Len(rows) |-> rows[Len(rows) + 1 - i]]}

\* what retrieve returns (vector_results, graph_context, combined_context), with
\* what it saw on the way: the search results, the chunks fetched, the calls made
Retrieved(searched, vr, gc, fetched, cc, calls) ==
    [exc |-> "ok", searched |-> searched, vector_results |-> vr, graph_context |-> gc,
     graph_chunks |-> fetched, combined_context |-> cc, calls |-> calls]

\* retrieve raises exc
RetrieveRaised(exc, searched, calls) ==
    [exc |-> exc, searched |-> searched, vector_results |-> <<>>, graph_context |-> <<>>,
     graph_chunks |-> <<>>, combined_context |-> <<>>, calls |-> calls]

\* steps 4 and 5, given the vector results and the traversal result
RetrieveExpand(ns, es, vr, chunk_ids, gc) ==
    LET graph_nodes == SelectSeq(gc, IsChunkNode)
        graph_chunk_ids == [i \in 1..Len(graph_nodes) |-> graph_nodes[i].id]
        upto == <<"similarity_search", "traverse_from_chunks">>
    IN  IF graph_chunk_ids = <<>>
        THEN {Retrieved(vr, vr, gc, <<>>, Combine(vr, <<>>, gc, chunk_ids), upto)}
        ELSE {RetrieveRaised("ServiceUnavailable", vr, Append(upto, "get_chunks_by_ids"))}
             \cup {Retrieved(vr, vr, gc, fetched, Combine(vr, fetched, gc, chunk_ids),
                             Append(upto, "get_chunks_by_ids")) :
                     fetched \in EngineOrders(GetChunksByIds(ns, es, graph_chunk_ids))}

\* steps 2 to 5, given the vector results
RetrieveFrom(ns, es, vr, max_hops) ==
    IF ShortCircuit(vr)
    THEN {Retrieved(vr, <<>>, <<>>, <<>>, <<>>, <<"similarity_search">>)}
    ELSE LET chunk_ids == GetChunkIdsFromResults(vr)
         IN  {RetrieveRaised("ServiceUnavailable", vr,
                             <<"similarity_search", "traverse_from_chunks">>)}
             \cup UNION {UNION {RetrieveExpand(ns, es, vr, chunk_ids, gc) :
                                   gc \in EngineOrders(rows)} :
                           rows \in TraverseFromChunks(ns, es, chunk_ids, max_hops)}

\* the possible outcomes of retrieve(query, top_k, max_hops)
Retrieve(ns, es, index, top_k, max_hops) ==
    UNION {RetrieveFrom(ns, es, vr, max_hops) : vr \in SimilaritySearch(index, top_k)}

----------------------------------------------------------------------------
(* QueryEngine._extract_sources and QueryEngine.query *)

TopKs == {1, 3}
HopChoices == {1, 2}

RECURSIVE ExtractSourcesFrom(_, _, _)
ExtractSourcesFrom(combined_context, i, seen) ==
    IF i > Len(combined_context) THEN <<>>
    ELSE LET item == combined_context[i]
             \* metadata.get("filename", item.get("document_filename", "Unknown"))
             filename ==
                 IF "filename" \in DOMAIN item.metadata THEN item.metadata["filename"]
                 ELSE IF "document_filename" \in DOMAIN item THEN item.document_filename
                 ELSE StrV("Unknown")
         IN  IF filename \notin seen /\ filename # StrV("Unknown")
             THEN <<[filename |-> filename, source_type |-> item.source,
                     chunk_index |-> PropOr(item.metadata, "chunk_index", NoneV)]>>
                  \o ExtractSourcesFrom(combined_context, i + 1, seen \cup {filename})
             ELSE ExtractSourcesFrom(combined_context, i + 1, seen)

NoInformation == "I couldn't find relevant information in the documents to answer this question."

\* a faulty variant: the except clause re-raises
QueryHandlerReraises(exc, retrieval) ==
    [kind |-> "query", exc |-> exc, answer |-> "", sources |-> <<>>,
     retrieval_info |-> "none", error |-> exc, retrieval |-> retrieval]

\* except Exception as e: the result returned
QueryHandler(exc, retrieval) ==
    [kind |-> "query", exc |-> "ok", answer |-> "Error processing query: " \o exc,
     sources |-> <<>>, retrieval_info |-> "empty", error |-> exc, retrieval |-> retrieval]

QueryReturn(answer, sources, info, retrieval) ==
    [kind |-> "query", exc |-> "ok", answer |-> answer, sources |-> sources,
     retrieval_info |-> info, error |-> "none", retrieval |-> retrieval]

\* a faulty variant: no early return, the LLM is asked without any context too
QueryResultsAlwaysAsks(ns, es, index, top_k, max_hops) ==
    UNION {
        IF r.exc # "ok" THEN {QueryHandler(r.exc, r)}
        ELSE LET called == [r EXCEPT !.calls = Append(@, "llm.complete")]
             IN  {QueryHandler("APITimeoutError", called),
                  QueryReturn("answer", ExtractSourcesFrom(r.combined_context, 1, {}),
                              "counts", called)}
        : r \in Retrieve(ns, es, index, top_k, max_hops)}

\* the possible results of query(query, top_k, max_hops); `retrieval` records
\* what retrieve returned and the external calls made
QueryResults(ns, es, index, top_k, max_hops) ==
    UNION {
        IF r.exc # "ok" THEN {QueryHandler(r.exc, r)}
        ELSE IF r.combined_context = <<>>
        THEN {QueryReturn(NoInformation, <<>>, "retrieval_result", r)}
        ELSE LET called == [r EXCEPT !.calls = Append(@, "llm.complete")]
             IN  {QueryHandler("APITimeoutError", called),
                  QueryReturn("answer", ExtractSourcesFrom(r.combined_context, 1, {}),
                              "counts", called)}
        : r \in Retrieve(ns, es, index, top_k, max_hops)}

\* the API serves one request at a time: a query runs between ingestions
Query(top_k, max_hops) ==
    /\ \A w \in Workers : ing[w].pc = "idle"
    /\ qres.kind = "none"
    /\ qres' \in QueryResults(nodes, edges, vindex, top_k, max_hops)
    /\ call' = [op |-> "query", top_k |-> top_k, max_hops |-> max_hops]
    /\ UNCHANGED <<nodes, edges, vindex, now, ing, nIngest, nFaults, batch>>

\* the upload handler answers the request: the id, or the error as HTTP 500
Respond(w) ==
    /\ ing[w].pc \in {"done", "failed"}
    /\ ing' = [ing EXCEPT ![w] = Idle]
    /\ call' = NoCall
    /\ UNCHANGED <<nodes, edges, vindex, now, nIngest, nFaults, qres, batch>>

Ingest(w, faulty, paths, sizes) ==
    \/ \E path \in paths : Start(w, path, faulty)
    \/ Respond(w)
    \/ DocumentStep(w, faulty)
    \/ ChunkingStep(w, faulty, sizes)
    \/ ChunkStep(w, faulty)
    \/ ExtractStep(w, faulty)
    \/ EntitiesStep(w, faulty)
    \/ RelationshipsStep(w, faulty)
    \/ IndexStep(w, faulty)

Init ==
    /\ nodes = <<>>
    /\ edges = {}
    /\ vindex = <<>>
    /\ now = 0
    /\ batch = [pc |-> "none"]
    /\ ing = [w \in Workers |-> Idle]
    /\ nIngest = 0
    /\ nFaults = 0
    /\ qres = [kind |-> "none"]
    /\ call = NoCall

----------------------------------------------------------------------------
(* Spec: ingestions and queries, served one request at a time, with the
   stores and the LLM available while a document is ingested *)

Next ==
    \/ \E w \in Workers : Ingest(w, FALSE, Paths, ChunkCounts)
    \/ \E top_k \in TopKs, max_hops \in HopChoices : Query(top_k, max_hops)

Spec == Init /\ [][Next]_vars

(* SpecIngest: ingestions during which external calls may fail *)

NextIngest == \E w \in Workers : Ingest(w, TRUE, Paths, ChunkCounts)

SpecIngest == Init /\ [][NextIngest]_vars

----------------------------------------------------------------------------
(* SpecStore: the operations of Neo4jStore called one after the other, with
   time passing between the calls *)

MaxClock == 2

\* the chunks the calls are about
StoreChunks == {Chunk(ParsedMetadata(PathA), 0, 1)}

StoreTick ==
    /\ now < MaxClock
    /\ now' = now + 1
    /\ UNCHANGED <<nodes, edges, vindex, ing, nIngest, nFaults, qres, call, batch>>

\* the call op(args) leaves the graph of r and returns or raises as r
StoreCall(op, args, r) ==
    /\ nodes' = r.nodes
    /\ edges' = r.edges
    /\ call' = [op |-> op, args |-> args, exc |-> r.exc]
    /\ UNCHANGED <<vindex, now, ing, nIngest, nFaults, qres, batch>>

CallCreateDocumentNode ==
    \E metadata \in {EmptyMap, ParsedMetadata(PathA)} :
        StoreCall("create_document_node", <<DocId(PathA), StrV(PathA.name), metadata>>,
                  CreateDocumentNode(nodes, edges, now, DocId(PathA), StrV(PathA.name),
                                     metadata))

CallCreateChunkNode ==
    \E chunk \in StoreChunks :
        StoreCall("create_chunk_node",
                  <<ChunkId(chunk), chunk.text, chunk.metadata, DocId(PathA)>>,
                  CreateChunkNode(nodes, edges, ChunkId(chunk), chunk.text, chunk.metadata,
                                  DocId(PathA)))

CallCreateEntityNodes ==
    \E entities \in {GoodEntities, MalformedEntities, BadLabelEntities},
       chunk \in StoreChunks :
        StoreCall("create_entity_nodes", <<entities, ChunkId(chunk)>>,
                  CreateEntityNodes(nodes, edges, entities, ChunkId(chunk)))

\* the batches: the corpus ones, and one relationship between two ids that no
\* node has, of a type that is two words
CallCreateRelationships ==
    \E relationships \in
          {GoodRelationships, MalformedRelationships,
           ListV(<< MapV(<< <<"from", StrV("e8")>>, <<"to", StrV("e9")>>,
                            <<"type", StrV("HAS PART")>> >>) >>)} :
        StoreCall("create_relationships", <<relationships>>,
                  CreateRelationships(nodes, edges, relationships))

CallClearAll == StoreCall("clear_all", <<>>, ClearAll(nodes, edges))

NextStore ==
    \/ StoreTick
    \/ CallCreateDocumentNode
    \/ CallCreateChunkNode
    \/ CallCreateEntityNodes
    \/ CallCreateRelationships
    \/ CallClearAll

SpecStore == Init /\ [][NextStore]_vars

(* SpecUpsert: create_document_node, create_chunk_node and
   create_entity_nodes called one after the other, the metadata of the chunk
   and the properties of the entity holding at most one key that is also the
   name of a field the statement sets itself *)

NextUpsert ==
    \/ CallCreateDocumentNode
    \/ \E chunk \in StoreChunks :
         \E extra \in {<<>>, <<"id", StrV("page-1")>>, <<"text", StrV("other text")>>} :
            LET metadata == IF extra = <<>> THEN chunk.metadata
                            ELSE Put(chunk.metadata, extra[1], extra[2])
            IN  StoreCall("create_chunk_node",
                          <<ChunkId(chunk), chunk.text, metadata, DocId(PathA)>>,
                          CreateChunkNode(nodes, edges, ChunkId(chunk), chunk.text, metadata,
                                          DocId(PathA)))
    \/ \E chunk \in StoreChunks :
         \E properties \in {EmptyMap, MapV(<< <<"id", StrV("e6")>> >>),
                            MapV(<< <<"name", StrV("Salary")>> >>)} :
            LET entities == ListV(<< MapV(<< <<"type", StrV("Topic")>>,
                                             <<"id", StrV("e5")>>,
                                             <<"name", StrV("Pay")>>,
                                             <<"properties", properties>> >>) >>)
            IN  StoreCall("create_entity_nodes", <<entities, ChunkId(chunk)>>,
                          CreateEntityNodes(nodes, edges, entities, ChunkId(chunk)))

SpecUpsert == Init /\ [][NextUpsert]_vars

----------------------------------------------------------------------------
(* SpecFlatten: _flatten_metadata applied to a metadata value *)

InitFlatten ==
    /\ nodes = <<>>
    /\ edges = {}
    /\ vindex = <<>>
    /\ now = 0
    /\ batch = [pc |-> "none"]
    /\ ing = [w \in Workers |-> Idle]
    /\ nIngest = 0
    /\ nFaults = 0
    /\ qres = [kind |-> "none"]
    /\ call \in {[op |-> "input", metadata |-> m] : m \in FlattenInputs}

CallFlattenMetadata ==
    /\ call.op = "input"
    /\ call' = [op |-> "flatten_metadata", metadata |-> call.metadata,
                result |-> FlattenMetadata(call.metadata)]
    /\ UNCHANGED <<nodes, edges, vindex, now, ing, nIngest, nFaults, qres, batch>>

SpecFlatten == InitFlatten /\ [][CallFlattenMetadata]_vars

----------------------------------------------------------------------------------------------------------------------------------------
(* SpecTraverse: traverse_from_chunks called between ingestions, one of the
   documents being long enough for LIMIT to cut the result *)

\* as many chunks as make the two-hop traversal from the first two chunks of
\* a.pdf match one row more than LIMIT keeps: 2 * WideChunks + 3 rows
WideChunks == (TraverseLimit - 2) \div 2

TraverseSeeds ==
    LET ids == {StrV("a.pdf_chunk_0"), StrV("a.pdf_chunk_1"), StrV("missing")}
    IN  {<<>>} \cup {<<x>> : x \in ids} \cup {<<x, y>> : x \in ids, y \in ids}

CallTraverseFromChunks ==
    /\ \A w \in Workers : ing[w].pc = "idle"
    /\ call = NoCall
    /\ \E chunk_ids \in TraverseSeeds, max_hops \in HopChoices :
         \E rows \in TraverseFromChunks(nodes, edges, chunk_ids, max_hops) :
            call' = [op |-> "traverse_from_chunks", chunk_ids |-> chunk_ids,
                     max_hops |-> max_hops, rows |-> rows]
    /\ UNCHANGED <<nodes, edges, vindex, now, ing, nIngest, nFaults, qres, batch>>

\* the caller is done with the result
ReturnTraverse ==
    /\ call.op = "traverse_from_chunks"
    /\ call' = NoCall
    /\ UNCHANGED <<nodes, edges, vindex, now, ing, nIngest, nFaults, qres, batch>>

NextTraverse ==
    \/ \E w \in Workers : Ingest(w, FALSE, {PathA}, {MaxChunks, WideChunks})
    \/ CallTraverseFromChunks
    \/ ReturnTraverse

SpecTraverse == Init /\ [][NextTraverse]_vars

----------------------------------------------------------------------------
(* SpecExtract: extract called on one LLM response that is a JSON object with
   a list of up to MaxEntities entities and a list of up to one relationship *)

MaxEntities == 2

\* the entities have no id, a string id, the empty id or a number as id; an
\* endpoint is missing, the id of an entity, another id, a number, or an id
\* that has the chunk id in front already
InitExtract ==
    /\ nodes = <<>>
    /\ edges = {}
    /\ vindex = <<>>
    /\ now = 0
    /\ batch = [pc |-> "none"]
    /\ ing = [w \in Workers |-> Idle]
    /\ nIngest = 0
    /\ nFaults = 0
    /\ qres = [kind |-> "none"]
    /\ LET WithKey(d, k, vs) == {d} \cup {Put(d, k, v) : v \in vs}
           ids == {StrV("e1"), StrV("e2"), StrV(""), IntV("5")}
           entity == WithKey(MapV(<< <<"type", StrV("Policy")>>, <<"name", StrV("N")>> >>),
                             "id", ids)
           froms == {StrV("e1"), StrV("e9"), IntV("5"), StrV("a.pdf_chunk_0_e1")}
           rel0 == MapV(<< <<"type", StrV("AFFECTS")>> >>)
           rel == UNION {WithKey(r, "to", {StrV("e2")}) : r \in WithKey(rel0, "from", froms)}
           entities == UNION {[1..n -> entity] : n \in 0..MaxEntities}
           relationships == {<<>>} \cup {<<r>> : r \in rel}
       IN  call \in {[op |-> "llm", chunk_id |-> c,
                      resp |-> LlmText(<<LlmObject(ListV(es), ListV(rs))>>)] :
                     c \in {"a.pdf_chunk_0", "b.pdf_chunk_1"},
                     es \in entities, rs \in relationships}

CallExtract ==
    /\ call.op = "llm"
    /\ call' = [op |-> "extract", resp |-> call.resp, chunk_id |-> call.chunk_id,
                result |-> Extract(call.resp, call.chunk_id)]
    /\ UNCHANGED <<nodes, edges, vindex, now, ing, nIngest, nFaults, qres, batch>>

SpecExtract == InitExtract /\ [][CallExtract]_vars

----------------------------------------------------------------------------
(* SpecMany: ingest_multiple_documents called on a list of paths, with
   external calls that may fail while a document is ingested *)

\* ingest_multiple_documents(pdf_paths) is called: doc_ids = [], and a loop
\* over no path returns at once
CallIngestMultipleDocuments ==
    /\ batch.pc = "none"
    /\ \A w \in Workers : ing[w].pc = "idle"
    /\ \E n \in 0..MaxIngests : \E pdf_paths \in [1..n -> Paths] :
         batch' = [pc |-> IF n = 0 THEN "returned" ELSE "loop",
                   pdf_paths |-> pdf_paths, k |-> 1, doc_ids |-> <<>>]
    /\ UNCHANGED <<nodes, edges, vindex, now, ing, nIngest, nFaults, qres, call>>

\* the loop's try: ingest_document(pdf_path) is called on the path the loop is at
LoopIngestDocument(w) ==
    /\ batch.pc = "loop"
    /\ Start(w, batch.pdf_paths[batch.k], TRUE)

\* a faulty variant: no handler, the exception of ingest_document leaves the loop
LoopNextUnhandled(w) ==
    /\ batch.pc = "loop"
    /\ ing[w].pc \in {"done", "failed"}
    /\ batch' = IF ing[w].pc = "done"
                THEN [batch EXCEPT !.doc_ids = Append(@, ing[w].doc_id), !.k = @ + 1,
                                   !.pc = IF batch.k = Len(batch.pdf_paths)
                                          THEN "returned" ELSE "loop"]
                ELSE [batch EXCEPT !.pc = "raised"]
    /\ ing' = [ing EXCEPT ![w] = Idle]
    /\ call' = NoCall
    /\ UNCHANGED <<nodes, edges, vindex, now, nIngest, nFaults, qres>>

\* ingest_document is over: its id is appended, or its exception is caught and
\* logged; the loop goes on with the next path, and returns doc_ids after the last
LoopNext(w) ==
    /\ batch.pc = "loop"
    /\ ing[w].pc \in {"done", "failed"}
    /\ batch' = [batch EXCEPT !.doc_ids = IF ing[w].pc = "done"
                                          THEN Append(@, ing[w].doc_id) ELSE @,
                              !.k = @ + 1,
                              !.pc = IF batch.k = Len(batch.pdf_paths)
                                     THEN "returned" ELSE "loop"]
    /\ ing' = [ing EXCEPT ![w] = Idle]
    /\ call' = NoCall
    /\ UNCHANGED <<nodes, edges, vindex, now, nIngest, nFaults, qres>>

NextMany ==
    \/ CallIngestMultipleDocuments
    \/ \E w \in Workers :
         \/ LoopIngestDocument(w)
         \/ LoopNext(w)
         \/ DocumentStep(w, TRUE)
         \/ ChunkingStep(w, TRUE, ChunkCounts)
         \/ ChunkStep(w, TRUE)
         \/ ExtractStep(w, TRUE)
         \/ EntitiesStep(w, TRUE)
         \/ RelationshipsStep(w, TRUE)
         \/ IndexStep(w, TRUE)

SpecMany == Init /\ [][NextMany]_vars

----------------------------------------------------------------------------
(* SpecConcurrent: two callers of ingest_document at once, one on a.pdf and
   one on b.pdf, on the same stores; a store call is one step, and the store
   calls of the two callers interleave in every way *)

\* ingest_document's loop from chunk i on, run without interruption on the
\* graph (ns, es): the graph it leaves, the relationships accumulated and the
\* exception that ended it, if any
RECURSIVE IngestChunks(_, _, _, _, _, _)
IngestChunks(ns, es, path, chunks, i, rels) ==
    IF i > Len(chunks)
    THEN [nodes |-> ns, edges |-> es, rels |-> rels, exc |-> "ok"]
    ELSE LET chunk_id == ChunkId(chunks[i])
             c == CreateChunkNode(ns, es, chunk_id, chunks[i].text, chunks[i].metadata,
                                  DocId(path))
             x == Extract(CorpusResponse(path.name, i - 1), chunk_id)
             e == IF Truthy(x.entities)
                  THEN CreateEntityNodes(c.nodes, c.edges, x.entities, chunk_id)
                  ELSE Ok(c.nodes, c.edges)
         IN  IF c.exc # "ok"
             THEN [nodes |-> c.nodes, edges |-> c.edges, rels |-> rels, exc |-> c.exc]
             ELSE IF x.exc # "ok"
             THEN [nodes |-> c.nodes, edges |-> c.edges, rels |-> rels, exc |-> x.exc]
             ELSE IF e.exc # "ok"
             THEN [nodes |-> e.nodes, edges |-> e.edges, rels |-> rels, exc |-> e.exc]
             ELSE IngestChunks(e.nodes, e.edges, path, chunks, i + 1,
                               rels \o IterItems(x.relationships))

\* ingest_document(path) run from its first line to its last on the stores
\* g = [nodes, edges, vindex, now], the splitter making n chunks and every
\* service answering: the stores it leaves, whether it returns or raises
IngestDocument(g, path, n) ==
    LET metadata == ParsedMetadata(path)
        d == CreateDocumentNode(g.nodes, g.edges, g.now, DocId(path),
                                Get(metadata, "filename"), metadata)
        chunks == ChunkDocument(metadata, n)
        l == IngestChunks(d.nodes, d.edges, path, chunks, 1, <<>>)
        r == IF l.rels # <<>> THEN CreateRelationships(l.nodes, l.edges, ListV(l.rels))
             ELSE Ok(l.nodes, l.edges)
        left == IF d.exc # "ok" THEN d ELSE IF l.exc # "ok" THEN l ELSE r
    IN  [nodes |-> left.nodes, edges |-> left.edges, now |-> g.now + 1,
         vindex |-> IF left.exc = "ok" THEN AddDocuments(g.vindex, chunks, n)
                    ELSE g.vindex]

InitConcurrent ==
    /\ nodes = <<>>
    /\ edges = {}
    /\ vindex = <<>>
    /\ now = 0
    /\ batch = [pc |-> "none"]
    /\ ing = [w \in {"w1", "w2"} |-> Idle]
    /\ nIngest = 0
    /\ nFaults = 0
    /\ qres = [kind |-> "none"]
    /\ call = NoCall

NextConcurrent ==
    \E w \in {"w1", "w2"} :
        \/ \E path \in Paths : (w = "w1") = (path = PathA) /\ Start(w, path, FALSE)
        \/ DocumentStep(w, FALSE)
        \/ ChunkingStep(w, FALSE, ChunkCounts)
        \/ ChunkStep(w, FALSE)
        \/ ExtractStep(w, FALSE)
        \/ EntitiesStep(w, FALSE)
        \/ RelationshipsStep(w, FALSE)
        \/ IndexStep(w, FALSE)

SpecConcurrent == InitConcurrent /\ [][NextConcurrent]_vars

----------------------------------------------------------------------------
(* SpecReset: ingestions and queries as in Spec, and clear_all called between
   two requests *)

NextReset ==
    \/ Next
    \/ (\A w \in Workers : ing[w].pc = "idle") /\ CallClearAll

SpecReset == Init /\ [][NextReset]_vars

----------------------------------------------------------------------------
(* Properties *)

\* C1: in the combined_context that retrieve returns, every item tagged
\* 'vector' comes before every item tagged 'graph' or 'graph_entity', and the
\* vector items are the vector search results, in the order of the search.
C1_VectorItemsFirst ==
    (qres.kind = "query" /\ qres.retrieval.exc = "ok") =>
        LET cc == qres.retrieval.combined_context
            vr == qres.retrieval.vector_results
        IN  /\ \A i, j \in 1..Len(cc) :
                 (i < j /\ cc[j].source = "vector") => cc[i].source = "vector"
            /\ Len(vr) <= Len(cc)
            /\ \A i \in 1..Len(vr) :
                 /\ cc[i].source = "vector"
                 /\ cc[i].text = vr[i].text
                 /\ cc[i].score = vr[i].score
            /\ \A i \in (Len(vr) + 1)..Len(cc) : cc[i].source \in {"graph", "graph_entity"}

\* a retrieval that returned items of the three kinds
C1_Witness ==
    /\ qres.kind = "query"
    /\ qres.retrieval.exc = "ok"
    /\ \E i, j, k \in 1..Len(qres.retrieval.combined_context) :
         /\ qres.retrieval.combined_context[i].source = "vector"
         /\ qres.retrieval.combined_context[j].source = "graph"
         /\ qres.retrieval.combined_context[k].source = "graph_entity"

\* C2: a chunk id that is both a vector seed of a retrieve call and returned
\* by the graph traversal of that call is referred to by exactly one item of
\* combined_context, and that item is tagged 'vector'.
C2_SeedChunkOnceAsVector ==
    (qres.kind = "query" /\ qres.retrieval.exc = "ok") =>
        LET r == qres.retrieval
            cc == r.combined_context
            seeds == {GetOr(r.vector_results[i].metadata, "chunk_id", NoneV) :
                        i \in 1..Len(r.vector_results)}
            traversed == {r.graph_context[i].id :
                            i \in {j \in 1..Len(r.graph_context) :
                                     "Chunk" \in Range(r.graph_context[j].labels)}}
            RefersTo(item, X) ==
                \/ /\ item.source = "vector"
                   /\ PropOr(item.metadata, "chunk_id", NoneV) = X
                \/ /\ item.source = "graph"
                   /\ \E c \in MatchLabelId(nodes, "Chunk", X) :
                        item.text = PropOr(nodes[c].props, "text", NoneV)
        IN  \A X \in seeds \cap traversed :
                /\ Cardinality({i \in 1..Len(cc) : RefersTo(cc[i], X)}) = 1
                /\ \A i \in 1..Len(cc) : RefersTo(cc[i], X) => cc[i].source = "vector"

\* C3: during the ingestion of a document, create_relationships is called
\* only when the loop over the chunks is over: after it no chunk is written,
\* extracted from or given entities, and before it every chunk was processed.
C3_RelationshipsAfterAllEntities ==
    \A w \in Workers :
        LET log == ing[w].log
        IN  /\ \A j, k \in 1..Len(log) :
                 (j < k /\ log[j] = "create_relationships")
                     => log[k] \notin {"create_chunk_node", "extract", "create_entity_nodes"}
            /\ ing[w].pc = "relationships" => ing[w].i = Len(ing[w].chunks) + 1
            /\ (ing[w].pc = "index" /\ "create_relationships" \in Range(log))
                   => Cardinality({j \in 1..Len(log) : log[j] = "extract"})
                      = Len(ing[w].chunks)

\* the relationships of a document with entities in two chunks have been written
C3_Witness ==
    \E w \in Workers :
        /\ ing[w].pc = "index"
        /\ "create_relationships" \in Range(ing[w].log)
        /\ Cardinality({j \in 1..Len(ing[w].log) :
                          ing[w].log[j] = "create_entity_nodes"}) >= 2

\* C4: every graph upsert is idempotent: called a second time with the
\* arguments of the call before it, it leaves every node, every edge and every
\* property (the creation timestamp of the document included) as they were.
C4_UpsertsIdempotent ==
    [][(/\ call'.op \in {"create_document_node", "create_chunk_node",
                         "create_entity_nodes", "create_relationships"}
        /\ call.op = call'.op
        /\ call.args = call'.args
        /\ call.exc = "ok")
       => (nodes' = nodes /\ edges' = edges)]_vars

\* C5: every value that _flatten_metadata lets through is a scalar (string,
\* integer, float, boolean) or a flat array of scalars: no value is a map, and
\* no value is an array that contains a map or another array (nulls, which
\* write no property, are let through).
C5_FlattenedOnlyFlat ==
    call.op = "flatten_metadata" =>
        \A i \in 1..Len(call.result.pairs) :
            LET v == call.result.pairs[i][2]
            IN  \/ IsNone(v)
                \/ IsScalar(v)
                \/ /\ IsList(v)
                   /\ \A j \in 1..Len(v.items) : IsScalar(v.items[j]) \/ IsNone(v.items[j])

\* C6: every row that traverse_from_chunks returns is a node reached from a
\* seed chunk by at least 1 and at most max_hops relationships, followed in
\* either direction, and there are at most 100 rows.
C6_TraversalWithinHops ==
    call.op = "traverse_from_chunks" =>
        LET Neighbours(S) ==
                {e.to : e \in {x \in edges : x.from \in S}}
                \cup {e.from : e \in {x \in edges : x.to \in S}}
            Within(c, hops) ==
                IF hops = 1 THEN Neighbours({c})
                ELSE Neighbours({c}) \cup Neighbours(Neighbours({c}))
        IN  /\ call.max_hops \in {1, 2}
            /\ Len(call.rows) <= TraverseLimit
            /\ \A j \in 1..Len(call.rows) :
                 /\ call.rows[j].source_chunk_id \in Range(call.chunk_ids)
                 /\ \E c \in MatchLabelId(nodes, "Chunk", call.rows[j].source_chunk_id),
                       n \in MatchId(nodes, call.rows[j].id) :
                        /\ call.rows[j].labels = <<nodes[n].label>>
                        /\ n \in Within(c, call.max_hops)

\* a two-hop traversal that LIMIT has cut to 100 rows
C6_Witness ==
    /\ call.op = "traverse_from_chunks"
    /\ call.max_hops = 2
    /\ Len(call.rows) = TraverseLimit
    /\ \E j \in 1..Len(call.rows) : call.rows[j].labels = <<"Chunk">>

\* C7: when the vector search returns nothing, retrieve returns empty
\* vector_results, graph_context and combined_context and has called neither
\* the traversal nor the chunk fetch.
C7_EmptySearchShortCircuits ==
    (qres.kind = "query" /\ qres.retrieval.searched = <<>>) =>
        /\ qres.retrieval.exc = "ok"
        /\ qres.retrieval.vector_results = <<>>
        /\ qres.retrieval.graph_context = <<>>
        /\ qres.retrieval.combined_context = <<>>
        /\ qres.retrieval.calls = <<"similarity_search">>

\* a search without result while the graph holds chunks
C7_Witness ==
    /\ qres.kind = "query"
    /\ qres.retrieval.searched = <<>>
    /\ \E i \in 1..Len(nodes) : nodes[i].label = "Chunk"
    /\ vindex # <<>>

\* C8: extract never raises: whatever the LLM does (the call fails, the text
\* is not JSON, the JSON is not an object, the entries have the wrong shape)
\* it returns the processed lists, or two empty lists when it could not
\* process the response, and the ingestion of the document goes on.
C8_ExtractNeverRaises ==
    call.op = "extract" =>
        /\ call.result.exc = "ok"
        /\ call.resp \in LlmFailures =>
               /\ call.result.entities = ListV(<<>>)
               /\ call.result.relationships = ListV(<<>>)
        /\ \A w \in Workers : ing[w].pc \in {"chunk", "entities", "relationships", "index"}

\* the LLM failed on a chunk and the ingestion went on
C8_Witness ==
    /\ call.op = "extract"
    /\ call.resp \in LlmFailures
    /\ call.resp.kind = "text"
    /\ \E w \in Workers : ing[w].pc = "chunk"

\* C9: query never raises: when retrieval, a store call or the LLM call
\* raises, query returns a result whose answer holds the error text, whose
\* sources are empty and whose retrieval_info is there (empty).
C9_QueryNeverRaises ==
    qres.kind = "query" =>
        /\ qres.exc = "ok"
        /\ qres.error # "none" =>
               /\ qres.answer = "Error processing query: " \o qres.error
               /\ qres.sources = <<>>
               /\ qres.retrieval_info = "empty"

\* a store call of the retrieval failed, and the LLM call failed
C9_Witness ==
    /\ qres.kind = "query"
    /\ qres.error = "ServiceUnavailable"
    /\ "get_chunks_by_ids" \in Range(qres.retrieval.calls)

\* C10: malformed extractor output never aborts the ingestion of the
\* document: without any failure of an external service, ingest_document does
\* not fail in create_entity_nodes or in create_relationships.
C10_MalformedOutputNeverAborts ==
    \A w \in Workers :
        (ing[w].pc = "failed" /\ nFaults = 0 /\ Len(ing[w].log) > 0) =>
            ing[w].log[Len(ing[w].log)]
                \notin {"create_entity_nodes", "create_relationships"}

\* C11: create_relationships never creates a node; a batch in which every
\* relationship has an endpoint id that no node has adds no edge and raises no
\* error; between two existing endpoints of a relationship of the batch there
\* is exactly one edge of its type afterwards, however often it is submitted.
C11_RelationshipsCreateNoNode ==
    [][call'.op = "create_relationships" =>
         LET rels == call'.args[1].items
             From(r) == GetOr(r, "from", NoneV)
             To(r) == GetOr(r, "to", NoneV)
             Dangling(r) == MatchId(nodes, From(r)) \X MatchId(nodes, To(r)) = {}
         IN  /\ nodes' = nodes
             /\ (\A i \in 1..Len(rels) : Dangling(rels[i]))
                    => (edges' = edges /\ call'.exc = "ok")
             /\ \A i \in 1..Len(rels) :
                    \A a \in MatchId(nodes, From(rels[i])), b \in MatchId(nodes, To(rels[i])) :
                       Cardinality(EdgeBetween(edges', a,
                                       PyStr(GetOr(rels[i], "type", StrV("RELATES_TO"))), b)) = 1
       ]_vars

\* C12: in every state of the graph, every Chunk node is owned by exactly one
\* Document node through a BELONGS_TO edge; a create_chunk_node whose document
\* does not exist leaves no Chunk node without a document.
C12_ChunkOwnedByOneDocument ==
    \A ch \in 1..Len(nodes) :
        nodes[ch].label = "Chunk" => Cardinality(DocumentsOf(nodes, edges, ch)) = 1

\* C13: traverse_from_chunks returns a distinct set of nodes: no node id occurs
\* in more than one row of its result, also when the node is reached from
\* several seed chunks (the row then carries one seed chunk id only).
C13_TraversalRowsDistinct ==
    call.op = "traverse_from_chunks" =>
        \A i, j \in 1..Len(call.rows) : call.rows[i].id = call.rows[j].id => i = j

\* C14: traverse_from_chunks returns reached nodes and never a seed: no row has
\* the id of one of the seed chunks, also when a seed is reached from another.
C14_TraversalReturnsNoSeed ==
    call.op = "traverse_from_chunks" =>
        \A j \in 1..Len(call.rows) : call.rows[j].id \notin Range(call.chunk_ids)

\* C15: every entity that extract returns has the id chunk_id + "_" + the id
\* the LLM gave it (an entity the LLM gave no id has none), the entities being
\* those of the response, in its order.
C15_EntityIdsNamespaced ==
    call.op = "extract" =>
        LET given == Get(call.resp.tokens[1].v, "entities").items
            returned == call.result.entities.items
        IN  /\ call.result.exc = "ok"
            /\ Len(returned) = Len(given)
            /\ \A i \in 1..Len(given) :
                   IF HasKey(given[i], "id")
                   THEN Get(returned[i], "id")
                        = StrV(call.chunk_id \o "_" \o Get(given[i], "id").s)
                   ELSE ~HasKey(returned[i], "id")

\* two entities to which the LLM gave the same id in two chunks, one a number
C15_Witness ==
    /\ call.op = "extract"
    /\ call.chunk_id = "b.pdf_chunk_1"
    /\ Len(call.result.entities.items) = 2
    /\ GetOr(call.result.entities.items[1], "id", NoneV) = StrV("b.pdf_chunk_1_e1")
    /\ GetOr(call.result.entities.items[2], "id", NoneV) = StrV("b.pdf_chunk_1_5")

\* C16: every endpoint of a relationship that extract returns is the
\* namespaced id of the entity of the same response whose id the LLM gave as
\* the endpoint, and chunk_id + "_" + the endpoint the LLM gave when no entity
\* of the response has that id.
C16_EndpointsResolved ==
    call.op = "extract" =>
        LET given == Get(call.resp.tokens[1].v, "relationships").items
            returned == call.result.relationships.items
            entities == Get(call.resp.tokens[1].v, "entities").items
            local == {Get(entities[i], "id") :
                        i \in {j \in 1..Len(entities) : HasKey(entities[j], "id")}}
        IN  /\ Len(returned) = Len(given)
            /\ \A i \in 1..Len(given), end \in {"from", "to"} :
                   HasKey(given[i], end) =>
                       LET x == Get(given[i], end)
                       IN  IF x \in local
                           THEN \E j \in 1..Len(entities) :
                                   /\ HasKey(entities[j], "id")
                                   /\ Get(entities[j], "id") = x
                                   /\ Get(returned[i], end)
                                      = Get(call.result.entities.items[j], "id")
                           ELSE Get(returned[i], end) = StrV(call.chunk_id \o "_" \o x.s)

\* C17: every entity node that ingestion persists (the nodes that
\* create_entity_nodes links to their chunk with MENTIONED_IN) has a label in
\* {Policy, Section, Topic, Concept}: an extracted entity of another type, such
\* as Chunk or Document, does not become a node with that label.
C17_EntityKindsClosed ==
    \A e \in edges :
        e.type = "MENTIONED_IN"
            => nodes[e.from].label \in {"Policy", "Section", "Topic", "Concept"}

\* C18: a query whose retrieval returned an empty combined context makes no
\* LLM completion call and returns the fixed answer with empty sources; a
\* query whose combined context is not empty makes exactly one completion call.
C18_LlmCalledIffContext ==
    (qres.kind = "query" /\ qres.retrieval.exc = "ok") =>
        LET completions == {i \in 1..Len(qres.retrieval.calls) :
                              qres.retrieval.calls[i] = "llm.complete"}
        IN  IF qres.retrieval.combined_context = <<>>
            THEN /\ completions = {}
                 /\ qres.answer = NoInformation
                 /\ qres.sources = <<>>
            ELSE Cardinality(completions) = 1

\* a query without context while the index holds entries, the search having failed
C18_Witness ==
    /\ qres.kind = "query"
    /\ qres.retrieval.exc = "ok"
    /\ qres.retrieval.combined_context = <<>>
    /\ vindex # <<>>
    /\ qres.answer = NoInformation

\* C19: the sources of an answer list each resolved filename of the combined
\* context exactly once, in the order of its first occurrence, and hold no
\* entry whose filename is unresolved ("Unknown", missing or None).
C19_SourcesDistinctResolved ==
    (qres.kind = "query" /\ qres.error = "none" /\ qres.retrieval.combined_context # <<>>) =>
        LET cc == qres.retrieval.combined_context
            FilenameOf(item) ==
                IF "filename" \in DOMAIN item.metadata THEN item.metadata["filename"]
                ELSE IF "document_filename" \in DOMAIN item THEN item.document_filename
                ELSE NoneV
            Resolved(f) == ~IsNone(f) /\ f # StrV("Unknown")
            First(f) == CHOOSE i \in 1..Len(cc) :
                            FilenameOf(cc[i]) = f /\ \A j \in 1..(i - 1) : FilenameOf(cc[j]) # f
            names == [i \in 1..Len(qres.sources) |-> qres.sources[i].filename]
        IN  /\ \A i \in 1..Len(names) : Resolved(names[i])
            /\ \A i, j \in 1..Len(names) : names[i] = names[j] => i = j
            /\ Range(names) = {f \in {FilenameOf(cc[i]) : i \in 1..Len(cc)} : Resolved(f)}
            /\ \A i, j \in 1..Len(names) : i < j => First(names[i]) < First(names[j])

\* C20: ingest_document raises to its caller exactly when the parse (the
\* reading and the splitting of the file), a graph write or the vector
\* indexing fails; a failure inside extract is absorbed: the ingestion goes on
\* with the entities, the next chunk, the relationships or the indexing, and
\* an ingestion that ends returns the document id with every chunk processed.
C20_FailurePropagation ==
    [][\A w \in Workers :
         LET Count(log, name) == Cardinality({j \in 1..Len(log) : log[j] = name})
         IN  /\ (nFaults' > nFaults /\ call'.op # "extract") => ing'[w].pc = "failed"
             /\ (ing'[w].pc = "failed" /\ ing[w].pc # "failed")
                    => (call'.op # "extract" /\ ing'[w].exc # "ok")
             /\ call'.op = "extract"
                    => ing'[w].pc \in {"chunk", "entities", "relationships", "index"}
             /\ ing'[w].pc = "done"
                    => /\ ing'[w].exc = "ok"
                       /\ ing'[w].doc_id \in {DocId(path) : path \in Paths}
                       /\ Count(ing'[w].log, "extract") = ing'[w].i - 1
                       /\ Count(ing'[w].log, "create_chunk_node") = ing'[w].i - 1
      ]_vars

\* the first ingestion returned its id although the LLM failed on one of its
\* two chunks
C20_Witness ==
    \E w \in Workers :
        /\ ing[w].pc = "done"
        /\ nIngest = 1
        /\ nFaults = 1
        /\ Cardinality({j \in 1..Len(ing[w].log) : ing[w].log[j] = "extract"}) = 2

\* C21: ingest_multiple_documents ingests the paths one after another in input
\* order: the document it starts is the one at the loop's position, the
\* position moves on by one when that ingestion is over, whether it succeeded
\* or failed, the id of the document is appended exactly when it succeeded, the
\* call never raises, and it returns once every path has been visited.
C21_IngestManyCollectsSuccesses ==
    [][\A w \in Workers :
         /\ (batch.pc = "loop" /\ ing[w].pc = "idle" /\ ing'[w].pc # "idle") =>
                /\ ing'[w].path = batch.pdf_paths[batch.k].name
                /\ batch' = batch
         /\ (batch.pc = "loop" /\ batch' # batch) =>
                /\ ing[w].pc \in {"done", "failed"}
                /\ batch'.pc \in {"loop", "returned"}
                /\ batch'.pdf_paths = batch.pdf_paths
                /\ batch'.k = batch.k + 1
                /\ (batch'.pc = "returned") = (batch.k = Len(batch.pdf_paths))
                /\ batch'.doc_ids = IF ing[w].pc = "done"
                                    THEN Append(batch.doc_ids, DocId(batch.pdf_paths[batch.k]))
                                    ELSE batch.doc_ids
         /\ (batch.pc = "returned") => batch' = batch]_vars

\* a call on two paths has returned the id of the second alone: the first
\* ingestion failed and the loop went on
C21_Witness ==
    /\ batch.pc = "returned"
    /\ Len(batch.pdf_paths) = 2
    /\ batch.doc_ids = <<DocId(batch.pdf_paths[2])>>
    /\ batch.pdf_paths[1] # batch.pdf_paths[2]

\* C22: the vector index holds at most one entry per chunk id, and a search
\* never returns two results with the same chunk_id.
C22_IndexKeyedByChunkId ==
    /\ \A i, j \in 1..Len(vindex) :
         GetOr(vindex[i].metadata, "chunk_id", NoneV) =
             GetOr(vindex[j].metadata, "chunk_id", NoneV) => i = j
    /\ (qres.kind = "query" /\ qres.retrieval.exc = "ok") =>
         LET vr == qres.retrieval.vector_results
         IN  \A i, j \in 1..Len(vr) :
               GetOr(vr[i].metadata, "chunk_id", NoneV) =
                   GetOr(vr[j].metadata, "chunk_id", NoneV) => i = j

\* C23: once a document is ingested, a query that is answered and whose
\* vector search returns one of the document's chunks has a combined context
\* with a 'vector' item holding the text of that chunk, and sources that
\* contain the filename of the document.
C23_IngestedChunkIsRetrievable ==
    (qres.kind = "query" /\ qres.error = "none") =>
        LET r == qres.retrieval
            cc == r.combined_context
        IN  \A i \in 1..Len(r.vector_results) :
              \A c \in MatchLabelId(nodes, "Chunk",
                                    GetOr(r.vector_results[i].metadata, "chunk_id", NoneV)) :
                \A d \in DocumentsOf(nodes, edges, c) :
                  /\ \E j \in 1..Len(cc) :
                       /\ cc[j].source = "vector"
                       /\ cc[j].text = PropOr(nodes[c].props, "text", NoneV)
                  /\ \E k \in 1..Len(qres.sources) :
                       qres.sources[k].filename = PropOr(nodes[d].props, "filename", NoneV)

\* an answered query whose search returned a chunk of each of two ingested documents
C23_Witness ==
    /\ qres.kind = "query"
    /\ qres.error = "none"
    /\ Len(qres.retrieval.vector_results) = 2
    /\ \A i \in 1..2 :
         \E c \in MatchLabelId(nodes, "Chunk",
                               GetOr(qres.retrieval.vector_results[i].metadata,
                                     "chunk_id", NoneV)) :
            DocumentsOf(nodes, edges, c) # {}
    /\ Len(qres.sources) = 2

\* C24: when two concurrent ingestions of two different documents are both
\* over, the graph nodes, the edges between them and the vector entries are
\* those that the two ingestions leave when one runs after the other, in one
\* of the two orders, with the same numbers of chunks.
C24_ConcurrentAsSequential ==
    (DOMAIN ing = {"w1", "w2"} /\ \A w \in DOMAIN ing : ing[w].pc \in {"done", "failed"}) =>
        LET NodeSet(ns) == Range(ns)
            EdgeSet(ns, es) == {[from |-> ns[e.from], to |-> ns[e.to], type |-> e.type,
                                 props |-> e.props] : e \in es}
            EntrySet(ix) == {[text |-> ix[i].text, metadata |-> ix[i].metadata] :
                               i \in 1..Len(ix)}
            PathOf(w) == CHOOSE p \in Paths : p.name = ing[w].path
            Sizes(w) == IF ing[w].pc = "done" THEN {ing[w].i - 1}
                        ELSE {n \in ChunkCounts : n >= ing[w].i}
            empty == [nodes |-> <<>>, edges |-> {}, vindex |-> <<>>, now |-> 0]
            Same(g) == /\ NodeSet(g.nodes) = NodeSet(nodes)
                       /\ Len(g.nodes) = Len(nodes)
                       /\ EdgeSet(g.nodes, g.edges) = EdgeSet(nodes, edges)
                       /\ EntrySet(g.vindex) = EntrySet(vindex)
                       /\ Len(g.vindex) = Len(vindex)
        IN  \E first \in {"w1", "w2"} : \E second \in {"w1", "w2"} \ {first} :
              \E n1 \in Sizes(first), n2 \in Sizes(second) :
                Same(IngestDocument(IngestDocument(empty, PathOf(first), n1),
                                    PathOf(second), n2))

\* both ingestions are over, each wrote its document node before the other
\* wrote a chunk, and each indexed a chunk
C24_Witness ==
    /\ DOMAIN ing = {"w1", "w2"}
    /\ \A w \in DOMAIN ing : ing[w].pc = "done" /\ ing[w].i >= 2
    /\ Len(nodes) >= 2
    /\ nodes[1].label = "Document"
    /\ nodes[2].label = "Document"
    /\ Len(vindex) >= 2

\* C25: _flatten_metadata stores a list whose elements are scalars of more
\* than one type as the list of the string forms of its elements, and leaves
\* out every key whose value is a map.
C25_MixedListsStringified ==
    (call.op = "flatten_metadata" /\ IsMap(call.metadata)) =>
        \A p \in Range(call.metadata.pairs) :
            LET key == p[1]
                value == p[2]
                mixed == /\ IsList(value)
                         /\ \A i \in 1..Len(value.items) : IsScalar(value.items[i])
                         /\ Cardinality({value.items[i].t : i \in 1..Len(value.items)}) > 1
            IN  /\ mixed =>
                     /\ HasKey(call.result, key)
                     /\ Get(call.result, key) =
                            ListV([i \in 1..Len(value.items) |-> StrV(PyStr(value.items[i]))])
                /\ IsMap(value) => ~HasKey(call.result, key)

\* C26: behind the vector items, combined_context holds exactly one 'graph'
\* item for each distinct traversed chunk id that is not a seed, then exactly
\* one 'graph_entity' item for each distinct non-chunk node of the traversal,
\* with the first label of the node as its type and the name of the node, and
\* nothing else.
C26_OneItemPerTraversedNode ==
    (qres.kind = "query" /\ qres.retrieval.exc = "ok") =>
        LET r == qres.retrieval
            cc == r.combined_context
            gc == r.graph_context
            nv == Len(r.vector_results)
            seeds == {GetOr(r.vector_results[i].metadata, "chunk_id", NoneV) : i \in 1..nv}
            chunkRows == {i \in 1..Len(gc) : IsChunkNode(gc[i])}
            otherRows == (1..Len(gc)) \ chunkRows
            graphItems == {j \in 1..Len(cc) : cc[j].source = "graph"}
            entityItems == {j \in 1..Len(cc) : cc[j].source = "graph_entity"}
            Shows(j, i) == /\ cc[j].type = (IF Len(gc[i].labels) > 0 THEN gc[i].labels[1]
                                            ELSE "Unknown")
                           /\ cc[j].name = gc[i].name
        IN  /\ \A j \in 1..Len(cc) : (j <= nv) = (cc[j].source = "vector")
            /\ \A j \in graphItems, k \in entityItems : j < k
            /\ Cardinality(graphItems) = Cardinality({gc[i].id : i \in chunkRows} \ seeds)
            /\ Cardinality(entityItems) = Cardinality({gc[i].id : i \in otherRows})
            /\ \A j \in entityItems : \E i \in otherRows : Shows(j, i)
            /\ \A i \in otherRows : \E j \in entityItems : Shows(j, i)

\* C27: add_documents is the last call of an ingestion and comes after
\* create_document_node, the create_chunk_node and the extraction of every
\* chunk, and create_relationships if there is a batch; and every entry of
\* the vector index has a Chunk node with its chunk id that BELONGS_TO the
\* Document with the entry's filename.
C27_IndexedAfterGraphWrites ==
    /\ \A w \in Workers :
         LET log == ing[w].log
             Count(name) == Cardinality({q \in 1..Len(log) : log[q] = name})
         IN  \A p \in 1..Len(log) :
               log[p] = "add_documents" =>
                 /\ p = Len(log)
                 /\ p > 1
                 /\ log[1] = "create_document_node"
                 /\ Count("create_chunk_node") = ing[w].i - 1
                 /\ Count("extract") = ing[w].i - 1
                 /\ log[p - 1] \in {"create_document_node", "extract",
                                    "create_entity_nodes", "create_relationships"}
                 /\ Count("create_relationships") <= 1
    /\ \A k \in 1..Len(vindex) :
         \E c \in MatchLabelId(nodes, "Chunk", GetOr(vindex[k].metadata, "chunk_id", NoneV)) :
           \E d \in DocumentsOf(nodes, edges, c) :
             PropOr(nodes[d].props, "filename", NoneV)
                 = GetOr(vindex[k].metadata, "filename", NoneV)

\* an ingestion of two chunks with a relationship batch has indexed its chunks
C27_Witness ==
    /\ Len(vindex) >= 2
    /\ \E w \in Workers :
         /\ ing[w].pc = "done"
         /\ ing[w].i = 3
         /\ Len(ing[w].log) > 2
         /\ ing[w].log[Len(ing[w].log) - 1] = "create_relationships"

\* C28: after create_chunk_node returns, the graph holds a Chunk node with the
\* chunk id passed whose text is the text passed; after create_entity_nodes
\* returns, every entity of the batch that has a type and an id has a node of
\* that type with that id whose name is the entity's name: no metadata key or
\* property replaces the id, the text or the name.
C28_ReservedFieldsKept ==
    /\ (call.op = "create_chunk_node" /\ call.exc = "ok") =>
         \E c \in MatchLabelId(nodes, "Chunk", StrV(call.args[1])) :
            PropOr(nodes[c].props, "text", NoneV) = call.args[2]
    /\ (call.op = "create_entity_nodes" /\ call.exc = "ok" /\ IsList(call.args[1])) =>
         \A entity \in Range(call.args[1].items) :
            (/\ IsMap(entity)
             /\ Truthy(GetOr(entity, "type", NoneV))
             /\ Truthy(GetOr(entity, "id", NoneV))) =>
                \E e \in MatchLabelId(nodes, PyStr(GetOr(entity, "type", NoneV)),
                                      GetOr(entity, "id", NoneV)) :
                   PropOr(nodes[e].props, "name", NoneV) = GetOr(entity, "name", StrV(""))

\* C29: an ingestion that fails in create_chunk_node or create_entity_nodes
\* while processing chunk k has called neither create_relationships nor
\* add_documents, and leaves in the graph its Document node and the Chunk node
\* of every chunk before k, each linked to the Document; no step of an
\* ingestion removes a node or an edge or changes a node's label or id, and the
\* vector index changes in add_documents only.
C29_AbortKeepsEarlierWrites ==
    [][\A w \in Workers :
         LET st == ing'[w]
             last == st.log[Len(st.log)]
             KeptNodes == /\ Len(nodes') >= Len(nodes)
                          /\ \A p \in 1..Len(nodes) :
                               /\ nodes'[p].label = nodes[p].label
                               /\ PropOr(nodes'[p].props, "id", NoneV)
                                      = PropOr(nodes[p].props, "id", NoneV)
             KeptEdges == \A e \in edges : EdgeBetween(edges', e.from, e.type, e.to) # {}
         IN  /\ KeptNodes
             /\ KeptEdges
             /\ vindex' # vindex => (Len(st.log) > 0 /\ last = "add_documents")
             /\ (/\ ing[w].pc \in {"chunk", "entities"}
                 /\ st.pc = "failed") =>
                    /\ last \in {"create_chunk_node", "create_entity_nodes"}
                    /\ "create_relationships" \notin Range(st.log)
                    /\ "add_documents" \notin Range(st.log)
                    /\ vindex' = vindex
                    /\ \E d \in MatchLabelId(nodes', "Document", StrV(st.doc_id)) :
                         \A j \in 1..(st.i - 1) :
                           \E c \in MatchLabelId(nodes', "Chunk",
                                                 StrV(st.path \o "_chunk_" \o ToString(j - 1))) :
                              d \in DocumentsOf(nodes', edges', c)]_vars

\* an ingestion has failed in a graph write of its second chunk, after the
\* entities of the first were written
C29_Witness ==
    \E w \in Workers :
        /\ ing[w].pc = "failed"
        /\ ing[w].i = 2
        /\ Len(ing[w].log) > 3
        /\ ing[w].log[Len(ing[w].log)] \in {"create_chunk_node", "create_entity_nodes"}
        /\ ing[w].log[3] = "extract"
        /\ ing[w].log[4] = "create_entity_nodes"
        /\ \E e \in 1..Len(nodes) : nodes[e].label = "Policy"

\* C30: clear_all returns with no node and no edge left in the graph and the
\* vector index as it was; a query made right after it whose vector search
\* returns results has a retrieval with an empty graph_context and a
\* combined_context that is not empty and holds 'vector' items only.
C30_ResetKeepsVectorIndex ==
    [][/\ call'.op = "clear_all" =>
            /\ call'.exc = "ok"
            /\ nodes' = <<>>
            /\ edges' = {}
            /\ vindex' = vindex
       /\ (/\ call.op = "clear_all"
           /\ qres'.kind = "query"
           /\ qres'.retrieval.exc = "ok"
           /\ qres'.retrieval.vector_results # <<>>) =>
              LET cc == qres'.retrieval.combined_context
              IN  /\ qres'.retrieval.graph_context = <<>>
                  /\ cc # <<>>
                  /\ \A j \in 1..Len(cc) : cc[j].source = "vector"]_vars

\* a query answered from two vector items right after a reset of a graph that
\* held the two chunks
C30_Witness ==
    /\ qres.kind = "query"
    /\ qres.error = "none"
    /\ nodes = <<>>
    /\ Len(vindex) >= 2
    /\ Len(qres.retrieval.combined_context) = 2
    /\ Len(qres.sources) >= 1

====
